---- MODULE Spec2Model ----
(***************************************************************************)
(* MyEssentials Ledger (client/src/App.jsx): the IndexedDB data layer, the *)
(* React state that caches it, and the handlers that write through.        *)
(*                                                                         *)
(* Persistent collections are sets of records keyed by id (keyPath 'id');  *)
(* the React state is three lists.  An async handler is an entry of        *)
(* `inflight`: it is issued, its transaction settles, and its continuation *)
(* (the code after `await`) runs.                                          *)
(***************************************************************************)
EXTENDS Integers, Sequences, FiniteSets, TLC

VARIABLES
    dbAvail,        \* window.indexedDB exists and open() succeeds
    dbItems,        \* object store 'items'
    dbStores,       \* object store 'stores'
    dbReceipts,     \* object store 'receipts'
    items,          \* useState(initialItems)
    stores,         \* useState(initialStores)
    receipts,       \* useState(initialReceipts)
    isDbReady,      \* useState(false)
    boot,           \* position of loadData and what it has loaded so far
    inflight,       \* handlers that have been invoked and not yet returned
    newStoreName,   \* useState('')
    filterStatus,   \* useState('All')
    searchTerm,     \* useState('')
    sortCriteria,   \* useState('name-asc'), as << criteria, directionStr >>
    modal,          \* "none" | "add" | "edit": AddItemModal / ItemEditModal
    localItem,      \* the modal's localItem state
    nextId,         \* crypto.randomUUID(): the next id never handed out before
    clock,          \* new Date(): the current time
    filesSelected,  \* how many files the import input has been given so far
    exported,       \* the files handleExportData has downloaded, newest last
    lastLog         \* the level of the most recent console message:
                    \* "error", "warn", "log", "" when there is none,
                    \* "error: invalid file" for the import's parse and
                    \* structure errors, "log: imported" for its success

vars == << dbAvail, dbItems, dbStores, dbReceipts, items, stores, receipts,
           isDbReady, boot, inflight, newStoreName, filterStatus, searchTerm,
           sortCriteria, modal, localItem, nextId, clock, filesSelected, exported,
           lastLog >>

dbVars  == << dbItems, dbStores, dbReceipts >>
memVars == << items, stores, receipts >>
viewVars == << filterStatus, searchTerm, sortCriteria >>
formVars == << modal, localItem >>

(***************************************************************************)
(* Bounds of the model and constants of the program.                       *)
(***************************************************************************)
MaxUuid  == 2       \* ids crypto.randomUUID() hands out in one behaviour
MaxQuantity == 2    \* +1 is not clicked beyond this quantity
MaxClock == 1       \* receipts logged in one behaviour
MaxFiles == 1       \* files selected for import in one behaviour

MAX_STORES_PER_ITEM == 10
MAX_REUSABLE_STORES == 50

STATUS_CYCLE == << "Depleted", "Running Low", "Home Stocked" >>

(***************************************************************************)
(* JavaScript values: a tagged value, so that '' and 0 and undefined stay  *)
(* apart until the code coerces them.                                      *)
(***************************************************************************)
Num(n) == [t |-> "num", v |-> n]
Str(s) == [t |-> "str", v |-> s]
NaN == [t |-> "nan", v |-> 0]
Undefined == [t |-> "undefined", v |-> 0]
Null == [t |-> "null", v |-> 0]

\* ToBoolean
Truthy(x) ==
    CASE x.t = "num" -> x.v # 0
      [] x.t = "str" -> x.v # ""
      [] x.t = "inf" -> TRUE
      [] OTHER -> FALSE

\* StringToNumber on the strings the inputs below can carry.
StringToNumber(s) ==
    CASE s = ""   -> Num(0)
      [] s = "0"  -> Num(0)
      [] s = "1"  -> Num(1)
      [] s = "2"  -> Num(2)
      [] s = "3"  -> Num(3)
      [] s = "-1" -> Num(-1)
      [] OTHER    -> NaN

\* ToNumber / Number(x)
ToNumber(x) ==
    CASE x.t = "num" -> x
      [] x.t = "str" -> StringToNumber(x.v)
      [] x.t = "null" -> Num(0)
      [] x.t = "inf" -> x
      [] OTHER -> NaN

\* x || d
OrElse(x, d) == IF Truthy(x) THEN x ELSE d

\* Math.max(a, x) for a number a
MathMax(a, x) ==
    LET n == ToNumber(x)
    IN  IF n.t = "nan" THEN NaN ELSE Num(IF n.v > a THEN n.v ELSE a)

\* x + d for a number d; a quantity held by an item is always a result of
\* Math.max, so x is a number or NaN.
Plus(x, d) ==
    CASE x.t = "num" -> Num(x.v + d)
      [] x.t = "nan" -> NaN

\* String.prototype.trim on the strings the inputs below can carry.
Trim(s) ==
    CASE s = " "      -> ""
      [] s = " A "    -> "A"
      [] s = " Milk " -> "Milk"
      [] s = " mi "   -> "mi"
      [] OTHER        -> s

(***************************************************************************)
(* IndexedDB object stores with keyPath 'id'.  NoId stands for a record    *)
(* without a usable key.                                                   *)
(***************************************************************************)
NoId == 0

HasKey(coll, id) == \E r \in coll : r.id = id


\* getAll(): the records in ascending key order
SortById(coll) ==
    [k \in 1..Cardinality(coll) |->
        CHOOSE r \in coll : Cardinality({ q \in coll : q.id < r.id }) = k - 1]

Range(seq) == { seq[i] : i \in 1..Len(seq) }

SelectSeqIdx(seq, Keep(_)) ==
    LET kept == { i \in 1..Len(seq) : Keep(i) }
    IN  [k \in 1..Cardinality(kept) |->
            seq[CHOOSE i \in kept : Cardinality({ j \in kept : j < i }) = k - 1]]

(***************************************************************************)
(* executeDBTransaction(storeName, mode, callback).  The callback issues   *)
(* its requests against one object store.  `env` is what the host does:    *)
(* "ok", or "fail" when open() or a request fails at the storage level.    *)
(* A request that errors (add of an existing key) aborts the transaction   *)
(* and reaches transaction.onerror; a request that throws (no usable key)  *)
(* leaves the callback, is caught and rejects, and the requests issued     *)
(* before it still commit; transaction.oncomplete resolves.                *)
(***************************************************************************)
ReqAdd(rec) == [kind |-> "add", rec |-> rec]
ReqPut(rec) == [kind |-> "put", rec |-> rec]
ReqDelete(id) == [kind |-> "delete", id |-> id]
ReqClear == [kind |-> "clear"]

\* The key a request names; clear() names none.
KeyOf(q) == IF q.kind = "delete" THEN q.id ELSE q.rec.id

Touches(q, id) == q.kind = "clear" \/ KeyOf(q) = id

\* Whether a record with this key is in the working copy after requests 1..n.
PresentAfter(coll, reqs, n, id) ==
    LET touching == { j \in 1..n : Touches(reqs[j], id) }
    IN  IF touching = {} THEN HasKey(coll, id)
        ELSE LET last == CHOOSE j \in touching : \A k \in touching : k <= j
             IN  reqs[last].kind \in { "add", "put" }

\* How issuing request n ends: add/put/delete without a usable key throws
\* DataError, add of a key already present fails with ConstraintError.
ErrorAt(coll, reqs, n) ==
    LET q == reqs[n]
    IN  IF q.kind # "clear" /\ KeyOf(q) = NoId THEN "throw"
        ELSE IF q.kind = "add" /\ PresentAfter(coll, reqs, n - 1, q.rec.id)
             THEN "constraint"
             ELSE "none"

\* The working copy after the requests, and how request issuing ended: the
\* requests before the first failing one are applied in order.
RunRequests(coll, reqs) ==
    LET failing == { n \in 1..Len(reqs) : ErrorAt(coll, reqs, n) # "none" }
        first == CHOOSE n \in failing : \A k \in failing : n <= k
        applied == IF failing = {} THEN Len(reqs) ELSE first - 1
        untouched == { r \in coll : \A j \in 1..applied : ~Touches(reqs[j], r.id) }
        written == { j \in 1..applied :
                        /\ reqs[j].kind \in { "add", "put" }
                        /\ \A k \in (j+1)..applied : ~Touches(reqs[k], reqs[j].rec.id) }
    IN  [coll |-> untouched \cup { reqs[j].rec : j \in written },
         err |-> IF failing = {} THEN "none" ELSE ErrorAt(coll, reqs, first)]

\* A variant in which transaction.onerror does not reject: the promise
\* resolves whatever happened.
ExecuteDBTransactionNoReject(coll, reqs, env) ==
    LET r == RunRequests(coll, reqs)
    IN  IF env = "fail" \/ r.err = "constraint"
        THEN [coll |-> coll, settled |-> "resolved"]
        ELSE [coll |-> r.coll, settled |-> "resolved"]

ExecuteDBTransaction(coll, reqs, env) ==
    LET r == RunRequests(coll, reqs)
    IN  IF env = "fail" \/ r.err = "constraint"
        THEN [coll |-> coll, settled |-> "rejected"]
        ELSE IF r.err = "throw"
             THEN [coll |-> r.coll, settled |-> "rejected"]
             ELSE [coll |-> r.coll, settled |-> "resolved"]

TxEnv == { "ok", "fail" }

\* The request lists of the CRUD wrappers.
addItemDB(item) == << ReqAdd(item) >>
updateItemDB(item) == << ReqPut(item) >>
deleteItemDB(itemId) == << ReqDelete(itemId) >>
addStoreDB(store) == << ReqAdd(store) >>
deleteStoreDB(storeId) == << ReqDelete(storeId) >>
addReceiptDB(receipt) == << ReqAdd(receipt) >>
deleteReceiptDB(receiptId) == << ReqDelete(receiptId) >>

\* clear() followed by one add per record: the import's replace of a collection
ReplaceAll(recs) == << ReqClear >> \o [i \in 1..Len(recs) |-> ReqAdd(recs[i])]

(***************************************************************************)
(* Handlers in flight.  `before` records the six collections as they were  *)
(* when the handler was invoked and `failed` whether its last transaction  *)
(* failed (history only; the code reads neither).                          *)
(***************************************************************************)
Collections(i, s, r) == [items |-> i, stores |-> s, receipts |-> r]

CollectionNames == { "items", "stores", "receipts" }

\* The persistent collections, by object-store name, and the lists that
\* cache them.
Db == Collections(dbItems, dbStores, dbReceipts)
Mem == Collections(items, stores, receipts)

Snapshot == [db |-> Db, mem |-> Mem]

\* A handler invoked now: `coll` is the object store it writes, `reqs` the
\* requests its callback issues, `arg` what its continuation needs.
Op(name, coll, reqs, arg) ==
    [op |-> name, stage |-> "pending", coll |-> coll, reqs |-> reqs,
     arg |-> arg, before |-> Snapshot, failed |-> FALSE]

\* `await p` lets the handler go on only once p is settled.
AwaitedEarly(o) == TRUE

Awaited(o) == o.stage \in { "resolved", "rejected" }

RemoveAt(seq, i) == SelectSeqIdx(seq, LAMBDA j : j # i)

\* The transaction of a handler in flight completes or fails.
TransactionSettles(i) ==
    /\ inflight[i].stage = "pending"
    /\ \E env \in TxEnv :
         LET o == inflight[i]
             r == ExecuteDBTransaction(Db[o.coll], o.reqs,
                                       IF dbAvail THEN env ELSE "fail")
         IN  /\ dbItems' = IF o.coll = "items" THEN r.coll ELSE dbItems
             /\ dbStores' = IF o.coll = "stores" THEN r.coll ELSE dbStores
             /\ dbReceipts' = IF o.coll = "receipts" THEN r.coll ELSE dbReceipts
             /\ inflight' = [inflight EXCEPT
                    ![i].stage = r.settled,
                    ![i].failed = \/ ~dbAvail
                                  \/ env = "fail"
                                  \/ RunRequests(Db[o.coll], o.reqs).err # "none"]
    /\ UNCHANGED << dbAvail, memVars, isDbReady, boot, newStoreName, viewVars,
                    formVars, nextId, clock, lastLog, filesSelected, exported >>

(***************************************************************************)
(* Mount: useState initial values and the loadData effect.                 *)
(***************************************************************************)
\* The loading screen is rendered until isDbReady; the menu, and in it the
\* hidden import input that importInputRef points to, only from then on.
InputRendered(ready) == ready

\* `listener`: whether the effect with the dependencies [handleImportData]
\* has attached handleFileChange to the import input.  It runs once, after
\* the first commit, which rendered with isDbReady = false, and returns
\* early when importInputRef.current is null; handleImportData never
\* changes, so it does not run again.
BootStart == [pc |-> "items", loadedItems |-> << >>, loadedStores |-> << >>,
              loadedReceipts |-> << >>, listener |-> InputRendered(FALSE)]

\* loadAllItemsDB / loadAllStoresDB / loadAllReceiptsDB: getAll() in a
\* readonly transaction.  When open() rejects, the await inside the promise
\* executor throws and the promise is never settled.
LoadAll(pc, next) ==
    /\ boot.pc = pc
    /\ IF dbAvail
       THEN /\ boot' = CASE pc = "items" ->
                              [boot EXCEPT !.pc = next, !.loadedItems = SortById(dbItems)]
                         [] pc = "stores" ->
                              [boot EXCEPT !.pc = next, !.loadedStores = SortById(dbStores)]
                         [] pc = "receipts" ->
                              [boot EXCEPT !.pc = next, !.loadedReceipts = SortById(dbReceipts)]
            /\ UNCHANGED lastLog
       ELSE /\ boot' = [boot EXCEPT !.pc = "hung"]
            /\ lastLog' = "error"
    /\ UNCHANGED << dbAvail, dbVars, memVars, isDbReady, inflight, newStoreName,
                    viewVars, formVars, nextId, clock, filesSelected, exported >>

loadAllItemsDB == LoadAll("items", "stores")
loadAllStoresDB == LoadAll("stores", "receipts")
loadAllReceiptsDB == LoadAll("receipts", "set")

\* loadData after its three awaits: the setters, then finally setIsDbReady.
loadData ==
    /\ boot.pc = "set"
    /\ items' = boot.loadedItems
    /\ stores' = boot.loadedStores
    /\ receipts' = boot.loadedReceipts
    /\ isDbReady' = TRUE
    /\ boot' = [BootStart EXCEPT !.pc = "done"]
    /\ UNCHANGED << dbAvail, dbVars, inflight, newStoreName, viewVars, formVars,
                    nextId, clock, lastLog, filesSelected, exported >>

\* The page is loaded again: the component mounts with its initial state.
Remount ==
    /\ isDbReady
    /\ inflight = << >>
    /\ items' = << >>
    /\ stores' = << >>
    /\ receipts' = << >>
    /\ isDbReady' = FALSE
    /\ boot' = BootStart
    /\ newStoreName' = ""
    /\ filterStatus' = "All"
    /\ searchTerm' = ""
    /\ sortCriteria' = << "name", "asc" >>
    /\ modal' = "none"
    /\ localItem' = << >>
    /\ lastLog' = ""
    /\ UNCHANGED << dbAvail, dbVars, inflight, nextId, clock, filesSelected, exported >>

(***************************************************************************)
(* Store CRUD.                                                             *)
(***************************************************************************)
StoreNameInputs == { " ", " A " }

\* onChange of the New Store Name input
setNewStoreName(s) ==
    /\ isDbReady
    /\ newStoreName' = s
    /\ UNCHANGED << dbAvail, dbVars, memVars, isDbReady, boot, inflight, viewVars,
                    formVars, nextId, clock, lastLog, filesSelected, exported >>

handleAddStore ==
    /\ isDbReady
    /\ nextId <= MaxUuid
    /\ IF Len(stores) >= MAX_REUSABLE_STORES \/ Trim(newStoreName) = ""
       THEN UNCHANGED << inflight, nextId >>
       ELSE LET newStore == [id |-> nextId, name |-> Trim(newStoreName)]
            IN  /\ inflight' = Append(inflight,
                        Op("addStore", "stores", addStoreDB(newStore), newStore))
                /\ nextId' = nextId + 1
    /\ UNCHANGED << dbAvail, dbVars, memVars, isDbReady, boot, newStoreName,
                    viewVars, formVars, clock, lastLog, filesSelected, exported >>

\* handleAddStore after `await addStoreDB(newStore)`
handleAddStoreResume(i) ==
    /\ inflight[i].op = "addStore"
    /\ Awaited(inflight[i])
    /\ IF inflight[i].stage = "rejected"
       THEN /\ lastLog' = "error"
            /\ UNCHANGED << stores, newStoreName >>
       ELSE /\ stores' = Append(stores, inflight[i].arg)
            /\ newStoreName' = ""
            /\ UNCHANGED lastLog
    /\ inflight' = RemoveAt(inflight, i)
    /\ UNCHANGED << dbAvail, dbVars, items, receipts, isDbReady, boot, viewVars,
                    formVars, nextId, clock, filesSelected, exported >>

handleDeleteStore(storeId) ==
    /\ isDbReady
    /\ inflight' = Append(inflight,
            Op("deleteStore", "stores", deleteStoreDB(storeId), storeId))
    /\ UNCHANGED << dbAvail, dbVars, memVars, isDbReady, boot, newStoreName,
                    viewVars, formVars, nextId, clock, lastLog, filesSelected, exported >>

\* A variant that also removes the price entries naming the deleted store.
handleDeleteStoreResumeCascade(i) ==
    /\ inflight[i].op = "deleteStore"
    /\ Awaited(inflight[i])
    /\ IF inflight[i].stage = "rejected"
       THEN /\ lastLog' = "error"
            /\ UNCHANGED << stores, items >>
       ELSE /\ stores' = SelectSeq(stores, LAMBDA s : s.id # inflight[i].arg)
            /\ items' = [k \in 1..Len(items) |->
                    [items[k] EXCEPT !.stores = SelectSeq(items[k].stores, LAMBDA e :
                        \A j \in 1..Len(stores) :
                            stores[j].id = inflight[i].arg => stores[j].name # e.storeName)]]
            /\ UNCHANGED lastLog
    /\ inflight' = RemoveAt(inflight, i)
    /\ UNCHANGED << dbAvail, dbVars, receipts, isDbReady, boot,
                    newStoreName, viewVars, formVars, nextId, clock, filesSelected, exported >>

\* handleDeleteStore after `await deleteStoreDB(storeId)`
handleDeleteStoreResume(i) ==
    /\ inflight[i].op = "deleteStore"
    /\ Awaited(inflight[i])
    /\ IF inflight[i].stage = "rejected"
       THEN /\ lastLog' = "error"
            /\ UNCHANGED stores
       ELSE /\ stores' = SelectSeq(stores, LAMBDA s : s.id # inflight[i].arg)
            /\ UNCHANGED lastLog
    /\ inflight' = RemoveAt(inflight, i)
    /\ UNCHANGED << dbAvail, dbVars, items, receipts, isDbReady, boot,
                    newStoreName, viewVars, formVars, nextId, clock, filesSelected, exported >>

(***************************************************************************)
(* Item CRUD.  An item is [id, name, category, status, quantity, stores];  *)
(* barcode and imageUrl are carried verbatim by every handler and are left *)
(* out.  A store-price entry is [storeName, price].                        *)
(***************************************************************************)
MapSeq(seq, F(_)) == [i \in 1..Len(seq) |-> F(seq[i])]

\* (x.stores || []).filter(s => s.storeName && s.price !== undefined &&
\*     s.price !== null).map(s => ({ ...s, price: Number(s.price) }))
SanitizeStores(sts) ==
    MapSeq(SelectSeq(sts, LAMBDA s : /\ s.storeName # ""
                                     /\ s.price.t \notin { "undefined", "null" }),
           LAMBDA s : [s EXCEPT !.price = ToNumber(s.price)])

\* Math.max(1, x.quantity || 1)
ClampQuantity(q) == MathMax(1, OrElse(q, Num(1)))

\* JSON.parse(JSON.stringify(x)) of a number-valued field: NaN and Infinity
\* become null.
JsonNumber(x) == IF x.t \in { "nan", "inf" } THEN Null ELSE x

\* ItemEditModal: useState(JSON.parse(JSON.stringify(item)))
JsonCloneItem(item) ==
    [item EXCEPT !.quantity = JsonNumber(item.quantity),
                 !.stores = MapSeq(item.stores,
                                LAMBDA s : [s EXCEPT !.price = JsonNumber(s.price)])]

handleCreateItem(itemData) ==
    /\ isDbReady
    /\ nextId <= MaxUuid
    /\ LET newItem == [itemData EXCEPT !.name = Trim(itemData.name),
                                       !.id = nextId,
                                       !.stores = SanitizeStores(itemData.stores),
                                       !.quantity = ClampQuantity(itemData.quantity)]
       IN  inflight' = Append(inflight,
               Op("createItem", "items", addItemDB(newItem), newItem))
    /\ nextId' = nextId + 1
    /\ UNCHANGED << dbAvail, dbVars, memVars, isDbReady, boot, newStoreName,
                    viewVars, formVars, clock, lastLog, filesSelected, exported >>

\* handleCreateItem after `await addItemDB(newItem)`
handleCreateItemResume(i) ==
    /\ inflight[i].op = "createItem"
    /\ Awaited(inflight[i])
    /\ IF inflight[i].stage = "rejected"
       THEN /\ lastLog' = "error"
            /\ UNCHANGED << items, formVars >>
       ELSE /\ items' = Append(items, inflight[i].arg)
            /\ modal' = IF modal = "add" THEN "none" ELSE modal
            /\ localItem' = IF modal = "add" THEN << >> ELSE localItem
            /\ UNCHANGED lastLog
    /\ inflight' = RemoveAt(inflight, i)
    /\ UNCHANGED << dbAvail, dbVars, stores, receipts, isDbReady, boot,
                    newStoreName, viewVars, nextId, clock, filesSelected, exported >>

handleUpdateItem(updatedItem) ==
    /\ isDbReady
    /\ LET itemToSave == [updatedItem EXCEPT
                              !.name = Trim(updatedItem.name),
                              !.stores = SanitizeStores(updatedItem.stores),
                              !.quantity = ClampQuantity(updatedItem.quantity)]
       IN  inflight' = Append(inflight,
               Op("updateItem", "items", updateItemDB(itemToSave), itemToSave))
    /\ UNCHANGED << dbAvail, dbVars, memVars, isDbReady, boot, newStoreName,
                    viewVars, formVars, nextId, clock, lastLog, filesSelected, exported >>

\* handleUpdateItem after `await updateItemDB(itemToSave)`
handleUpdateItemResume(i) ==
    /\ inflight[i].op = "updateItem"
    /\ Awaited(inflight[i])
    /\ IF inflight[i].stage = "rejected"
       THEN /\ lastLog' = "error"
            /\ UNCHANGED << items, formVars >>
       ELSE /\ items' = MapSeq(items, LAMBDA it : IF it.id = inflight[i].arg.id
                                                  THEN inflight[i].arg ELSE it)
            /\ modal' = IF modal = "edit" THEN "none" ELSE modal
            /\ localItem' = IF modal = "edit" THEN << >> ELSE localItem
            /\ UNCHANGED lastLog
    /\ inflight' = RemoveAt(inflight, i)
    /\ UNCHANGED << dbAvail, dbVars, stores, receipts, isDbReady, boot,
                    newStoreName, viewVars, nextId, clock, filesSelected, exported >>

handleDeleteItem(itemId) ==
    /\ isDbReady
    /\ inflight' = Append(inflight,
            Op("deleteItem", "items", deleteItemDB(itemId), itemId))
    /\ UNCHANGED << dbAvail, dbVars, memVars, isDbReady, boot, newStoreName,
                    viewVars, formVars, nextId, clock, lastLog, filesSelected, exported >>

\* A variant that also takes the deleted item out of the receipts that list it.
handleDeleteItemResumeCascade(i) ==
    /\ inflight[i].op = "deleteItem"
    /\ Awaited(inflight[i])
    /\ IF inflight[i].stage = "rejected"
       THEN /\ lastLog' = "error"
            /\ UNCHANGED << items, receipts >>
       ELSE /\ items' = SelectSeq(items, LAMBDA it : it.id # inflight[i].arg)
            /\ receipts' = MapSeq(receipts, LAMBDA r :
                    [r EXCEPT !.items = SelectSeq(r.items,
                                            LAMBDA e : e.id # inflight[i].arg)])
            /\ UNCHANGED lastLog
    /\ inflight' = RemoveAt(inflight, i)
    /\ UNCHANGED << dbAvail, dbVars, stores, isDbReady, boot,
                    newStoreName, viewVars, formVars, nextId, clock, filesSelected, exported >>

\* handleDeleteItem after `await deleteItemDB(itemId)`
handleDeleteItemResume(i) ==
    /\ inflight[i].op = "deleteItem"
    /\ Awaited(inflight[i])
    /\ IF inflight[i].stage = "rejected"
       THEN /\ lastLog' = "error"
            /\ UNCHANGED items
       ELSE /\ items' = SelectSeq(items, LAMBDA it : it.id # inflight[i].arg)
            /\ UNCHANGED lastLog
    /\ inflight' = RemoveAt(inflight, i)
    /\ UNCHANGED << dbAvail, dbVars, stores, receipts, isDbReady, boot,
                    newStoreName, viewVars, formVars, nextId, clock, filesSelected, exported >>

\* The first element with the id, as Array.prototype.find returns it.
FindById(seq, id) ==
    LET idx == { i \in 1..Len(seq) : seq[i].id = id }
    IN  seq[CHOOSE i \in idx : \A j \in idx : i <= j]

\* The handler maps over the `items` of the render that created it, writes
\* the one changed item, and on success sets the whole mapped list.
UpdateInPlace(name, itemId, F(_)) ==
    LET updatedItems == MapSeq(items, LAMBDA it : IF it.id = itemId THEN F(it) ELSE it)
    IN  IF \E i \in 1..Len(updatedItems) : updatedItems[i].id = itemId
        THEN inflight' = Append(inflight,
                 Op(name, "items",
                    updateItemDB(FindById(updatedItems, itemId)), updatedItems))
        ELSE UNCHANGED inflight

handleUpdateQuantity(itemId, delta) ==
    /\ isDbReady
    /\ UpdateInPlace("updateQuantity", itemId,
            LAMBDA it : [it EXCEPT !.quantity = MathMax(1, Plus(it.quantity, delta))])
    /\ UNCHANGED << dbAvail, dbVars, memVars, isDbReady, boot, newStoreName,
                    viewVars, formVars, nextId, clock, lastLog, filesSelected, exported >>

\* STATUS_CYCLE.indexOf(status), 0-based, -1 when absent
IndexOfStatus(status) ==
    IF \E k \in 1..Len(STATUS_CYCLE) : STATUS_CYCLE[k] = status
    THEN (CHOOSE k \in 1..Len(STATUS_CYCLE) : STATUS_CYCLE[k] = status) - 1
    ELSE -1

\* A variant that steps through the cycle backwards.
NextStatusBackward(status) ==
    STATUS_CYCLE[((IndexOfStatus(status) + Len(STATUS_CYCLE) - 1) % Len(STATUS_CYCLE)) + 1]

NextStatus(status) ==
    STATUS_CYCLE[((IndexOfStatus(status) + 1) % Len(STATUS_CYCLE)) + 1]

handleCycleStatus(itemId) ==
    /\ isDbReady
    /\ UpdateInPlace("cycleStatus", itemId,
            LAMBDA it : [it EXCEPT !.status = NextStatus(it.status)])
    /\ UNCHANGED << dbAvail, dbVars, memVars, isDbReady, boot, newStoreName,
                    viewVars, formVars, nextId, clock, lastLog, filesSelected, exported >>

\* handleUpdateQuantity / handleCycleStatus after `await updateItemDB(itemToUpdate)`
handleUpdateInPlaceResume(i) ==
    /\ inflight[i].op \in { "updateQuantity", "cycleStatus" }
    /\ Awaited(inflight[i])
    /\ IF inflight[i].stage = "rejected"
       THEN /\ lastLog' = "error"
            /\ UNCHANGED items
       ELSE /\ items' = inflight[i].arg
            /\ UNCHANGED lastLog
    /\ inflight' = RemoveAt(inflight, i)
    /\ UNCHANGED << dbAvail, dbVars, stores, receipts, isDbReady, boot,
                    newStoreName, viewVars, formVars, nextId, clock, filesSelected, exported >>

(***************************************************************************)
(* The visible list and its total.                                         *)
(***************************************************************************)
Infinity == [t |-> "inf", v |-> 1]

\* String.prototype.toLowerCase on the strings of the model.
ToLowerCase(s) ==
    CASE s = "A" -> "a"
      [] s = "B" -> "b"
      [] s = "Bread" -> "bread"
      [] s = "C" -> "c"
      [] s = "Dairy" -> "dairy"
      [] s = "Eggs" -> "eggs"
      [] s = "Milk" -> "milk"
      [] s = "N/A" -> "n/a"
      [] s = "Pantry" -> "pantry"
      [] s = "Salt" -> "salt"
      [] s = " MI " -> " mi "
      [] OTHER -> s

\* The place of a lower-case string of the model in code-unit order.
StringRank(s) ==
    CASE s = "" -> 0
      [] s = "a" -> 1
      [] s = "b" -> 2
      [] s = "bread" -> 3
      [] s = "c" -> 4
      [] s = "dairy" -> 5
      [] s = "eggs" -> 6
      [] s = "milk" -> 7
      [] s = "n/a" -> 8
      [] s = "pantry" -> 9
      [] s = "salt" -> 10

\* hay.includes(needle) on the strings of the model
Includes(hay, needle) ==
    \/ needle = ""
    \/ hay = needle
    \/ needle = "mi" /\ hay = "milk"
    \/ needle = "a" /\ hay \in { "bread", "dairy", "pantry", "n/a", "salt" }
    \/ needle = "b" /\ hay = "bread"

\* x > 0
GreaterThanZero(x) ==
    LET n == ToNumber(x)
    IN  \/ n.t = "inf"
        \/ n.t = "num" /\ n.v > 0

\* A variant that also takes an equal price as smaller.
LessThanOrEqual(a, b) == ToNumber(a).v <= ToNumber(b).v

\* a < b on two prices that are both > 0: numbers compare by value, two
\* strings compare by code units (one-character numerals: the same order).
LessThan(a, b) == ToNumber(a).v < ToNumber(b).v

getCheapestOption(item) ==
    IF Len(item.stores) = 0 THEN [price |-> Null, storeName |-> "N/A"]
    ELSE LET validPrices == SelectSeq(item.stores, LAMBDA s : GreaterThanZero(s.price))
             Min[k \in 1..Len(validPrices)] ==
                 IF k = 1 THEN validPrices[1]
                 ELSE IF LessThan(validPrices[k].price, Min[k-1].price)
                      THEN validPrices[k] ELSE Min[k-1]
         IN  IF Len(validPrices) = 0 THEN [price |-> Null, storeName |-> "N/A"]
             ELSE [price |-> Min[Len(validPrices)].price,
                   storeName |-> Min[Len(validPrices)].storeName]

\* a * b for a price (a number, a numeral string or Infinity) and a quantity
Times(a, b) ==
    LET x == ToNumber(a)
        y == ToNumber(b)
    IN  IF x.t = "nan" \/ y.t = "nan" THEN NaN
        ELSE IF x.t = "inf" THEN Infinity
        ELSE Num(x.v * y.v)

\* (getCheapestOption(a).price || fallback) * (a.quantity || 1)
CostOf(item, fallback) ==
    Times(OrElse(getCheapestOption(item).price, fallback), OrElse(item.quantity, Num(1)))

Sign(n) == IF n < 0 THEN -1 ELSE IF n > 0 THEN 1 ELSE 0

\* A variant that takes Infinity as equal to every cost.
SignOfDifferenceInfinityEqual(a, b, direction) ==
    IF a.t = "inf" \/ b.t = "inf" THEN 0 ELSE Sign(a.v - b.v) * direction

\* The sign of (a - b) * direction; NaN (Infinity - Infinity) counts as +0,
\* as SortCompare takes it.
SignOfDifference(a, b, direction) ==
    CASE a.t = "inf" /\ b.t = "inf" -> 0
      [] a.t = "inf" -> direction
      [] b.t = "inf" -> -direction
      [] OTHER -> Sign(a.v - b.v) * direction

\* The comparator of sorted.sort((a, b) => ...), as a sign.
Compare(a, b, criteria, direction) ==
    CASE criteria = "name" ->
            Sign(StringRank(ToLowerCase(a.name)) - StringRank(ToLowerCase(b.name))) * direction
      [] criteria = "category" ->
            Sign(StringRank(ToLowerCase(a.category)) - StringRank(ToLowerCase(b.category)))
                * direction
      [] criteria = "status" ->
            Sign((IndexOfStatus(a.status) + 1) - (IndexOfStatus(b.status) + 1)) * direction
      [] criteria = "cheapestPrice" ->
            SignOfDifference(CostOf(a, Infinity), CostOf(b, Infinity), direction)
      [] criteria = "store" ->
            Sign(StringRank(ToLowerCase(getCheapestOption(a).storeName))
                 - StringRank(ToLowerCase(getCheapestOption(b).storeName))) * direction
      [] OTHER -> 0

\* A variant that puts an element before the elements it compares equal to.
SortBeforeEqual(seq, criteria, direction) ==
    LET Insert(sorted, x) ==
            LET after == { k \in 0..Len(sorted) :
                             \A j \in (k+1)..Len(sorted) :
                                 Compare(sorted[j], x, criteria, direction) >= 0 }
                at == CHOOSE k \in after : \A m \in after : k <= m
            IN  SubSeq(sorted, 1, at) \o << x >> \o SubSeq(sorted, at+1, Len(sorted))
        F[i \in 0..Len(seq)] == IF i = 0 THEN << >> ELSE Insert(F[i-1], seq[i])
    IN  F[Len(seq)]

\* sorted.sort(comparator): a stable sort (insertion from the right).
SortStable(seq, criteria, direction) ==
    LET Insert(sorted, x) ==
            LET after == { k \in 0..Len(sorted) :
                             \A j \in (k+1)..Len(sorted) :
                                 Compare(sorted[j], x, criteria, direction) > 0 }
                at == CHOOSE k \in after : \A m \in after : k <= m
            IN  SubSeq(sorted, 1, at) \o << x >> \o SubSeq(sorted, at+1, Len(sorted))
        F[i \in 0..Len(seq)] == IF i = 0 THEN << >> ELSE Insert(F[i-1], seq[i])
    IN  F[Len(seq)]

SortCriteria == { "name", "category", "status", "cheapestPrice", "store" }

\* A variant in which the Shopping Cart filter keeps Depleted items only.
FilteredAndSortedCartDepleted(its, term, status, sort) ==
    LET lowerCaseSearchTerm == Trim(ToLowerCase(term))
        searched == IF lowerCaseSearchTerm # ""
                    THEN SelectSeq(its, LAMBDA it :
                             Includes(ToLowerCase(it.name), lowerCaseSearchTerm))
                    ELSE its
        filtered ==
            CASE status \in { "Depleted", "Shopping Cart" } ->
                    SelectSeq(searched, LAMBDA it : it.status = "Depleted")
              [] status = "Running Low" ->
                    SelectSeq(searched, LAMBDA it : it.status = "Running Low")
              [] OTHER -> searched
        direction == IF sort[2] = "asc" THEN 1 ELSE -1
    IN  SortStable(filtered, sort[1], direction)

\* filteredAndSortedItems for given items and view state; sortCriteria is
\* the pair << criteria, directionStr >> of sortCriteria.split('-').
FilteredAndSorted(its, term, status, sort) ==
    LET lowerCaseSearchTerm == Trim(ToLowerCase(term))
        searched == IF lowerCaseSearchTerm # ""
                    THEN SelectSeq(its, LAMBDA it :
                             Includes(ToLowerCase(it.name), lowerCaseSearchTerm))
                    ELSE its
        filtered ==
            CASE status = "Depleted" ->
                    SelectSeq(searched, LAMBDA it : it.status = "Depleted")
              [] status = "Running Low" ->
                    SelectSeq(searched, LAMBDA it : it.status = "Running Low")
              [] status = "Shopping Cart" ->
                    SelectSeq(searched, LAMBDA it : it.status \in { "Depleted", "Running Low" })
              [] OTHER -> searched
        direction == IF sort[2] = "asc" THEN 1 ELSE -1
    IN  SortStable(filtered, sort[1], direction)

\* A variant in which a status filter shows its items in name order.
filteredAndSortedItemsFilterByName ==
    FilteredAndSorted(items, searchTerm, filterStatus,
                      IF filterStatus = "All" THEN sortCriteria ELSE << "name", "asc" >>)

filteredAndSortedItems == FilteredAndSorted(items, searchTerm, filterStatus, sortCriteria)

totalVisibleItemCount == Len(filteredAndSortedItems)

\* total + x for the running total (a number) and a cost
AddCost(total, x) ==
    IF total.t = "nan" \/ x.t = "nan" THEN NaN ELSE Num(total.v + x.v)

\* A variant that adds the prices without the quantities.
TotalEstimatedCostUnitPrices(visible) ==
    LET F[i \in 0..Len(visible)] ==
            IF i = 0 THEN Num(0)
            ELSE AddCost(F[i-1], Times(OrElse(getCheapestOption(visible[i]).price, Num(0)),
                                       Num(1)))
    IN  F[Len(visible)]

\* totalEstimatedCost of a visible list
TotalEstimatedCost(visible) ==
    LET F[i \in 0..Len(visible)] ==
            IF i = 0 THEN Num(0) ELSE AddCost(F[i-1], CostOf(visible[i], Num(0)))
    IN  F[Len(visible)]

totalEstimatedCost == TotalEstimatedCost(filteredAndSortedItems)

(***************************************************************************)
(* The search box and the combined filter/sort select.                     *)
(***************************************************************************)
SearchInputs == { "", " ", " MI ", "a" }

\* onChange of the search input, and its clear button (text = "")
setSearchTerm(text) ==
    /\ isDbReady
    /\ text # searchTerm
    /\ searchTerm' = text
    /\ UNCHANGED << dbAvail, dbVars, memVars, isDbReady, boot, inflight, newStoreName,
                    filterStatus, sortCriteria, formVars, nextId, clock,
                    filesSelected, exported, lastLog >>

\* combinedOptions: each value as << prefix, rest >>, the rest of a sort
\* value as the pair its split('-') gives.
CombinedOptions ==
    { << "filter-", "all" >>, << "filter-", "shoppingcart" >>,
      << "filter-", "depleted" >>, << "filter-", "runninglow" >>,
      << "sort-", << "name", "asc" >> >>, << "sort-", << "category", "asc" >> >>,
      << "sort-", << "status", "asc" >> >>, << "sort-", << "cheapestPrice", "asc" >> >>,
      << "sort-", << "cheapestPrice", "desc" >> >>, << "sort-", << "store", "asc" >> >> }

\* the value the select shows
selectedValue ==
    CASE filterStatus = "Depleted" -> << "filter-", "depleted" >>
      [] filterStatus = "Running Low" -> << "filter-", "runninglow" >>
      [] filterStatus = "Shopping Cart" -> << "filter-", "shoppingcart" >>
      [] OTHER -> << "sort-", sortCriteria >>

\* A variant in which choosing a sort leaves the status filter as it is.
handleCombinedChangeKeepFilter(value) ==
    /\ isDbReady
    /\ value # selectedValue
    /\ IF value[1] = "filter-"
       THEN /\ filterStatus' = CASE value[2] = "all" -> "All"
                                  [] value[2] = "depleted" -> "Depleted"
                                  [] value[2] = "runninglow" -> "Running Low"
                                  [] value[2] = "shoppingcart" -> "Shopping Cart"
                                  [] OTHER -> filterStatus
            /\ UNCHANGED sortCriteria
       ELSE /\ sortCriteria' = value[2]
            /\ UNCHANGED filterStatus
    /\ UNCHANGED << dbAvail, dbVars, memVars, isDbReady, boot, inflight, newStoreName,
                    searchTerm, formVars, nextId, clock, filesSelected, exported,
                    lastLog >>

\* onChange of the select: fires when another option than the shown one is chosen
handleCombinedChange(value) ==
    /\ isDbReady
    /\ value # selectedValue
    /\ IF value[1] = "filter-"
       THEN /\ filterStatus' = CASE value[2] = "all" -> "All"
                                  [] value[2] = "depleted" -> "Depleted"
                                  [] value[2] = "runninglow" -> "Running Low"
                                  [] value[2] = "shoppingcart" -> "Shopping Cart"
                                  [] OTHER -> filterStatus
            /\ UNCHANGED sortCriteria
       ELSE /\ sortCriteria' = value[2]
            /\ filterStatus' = "All"
    /\ UNCHANGED << dbAvail, dbVars, memVars, isDbReady, boot, inflight, newStoreName,
                    searchTerm, formVars, nextId, clock, filesSelected, exported,
                    lastLog >>

(***************************************************************************)
(* Receipts.                                                               *)
(***************************************************************************)
\* A variant whose total adds the prices without the quantities.
ReceiptOfUnitPrices(id, now, visible, status, term) ==
    [id |-> id,
     timestamp |-> now,
     filterUsed |-> << status, term >>,
     estimatedTotal |-> TotalEstimatedCostUnitPrices(visible),
     itemCount |-> Len(visible),
     items |-> MapSeq(visible, LAMBDA it :
                  [id |-> it.id, name |-> it.name, quantity |-> it.quantity,
                   cheapestPrice |-> getCheapestOption(it).price,
                   cheapestStore |-> getCheapestOption(it).storeName,
                   status |-> it.status])]

\* The receipt handleLogReceipt builds from a visible list.
ReceiptOf(id, now, visible, status, term) ==
    [id |-> id,
     timestamp |-> now,
     filterUsed |-> << status, term >>,
     estimatedTotal |-> TotalEstimatedCost(visible),
     itemCount |-> Len(visible),
     items |-> MapSeq(visible, LAMBDA it :
                  [id |-> it.id, name |-> it.name, quantity |-> it.quantity,
                   cheapestPrice |-> getCheapestOption(it).price,
                   cheapestStore |-> getCheapestOption(it).storeName,
                   status |-> it.status])]

\* A variant without the test for an empty visible list.
handleLogReceiptNoGuard ==
    /\ isDbReady
    /\ nextId <= MaxUuid
    /\ clock <= MaxClock
    /\ LET receipt == ReceiptOf(nextId, clock, filteredAndSortedItems,
                                filterStatus, searchTerm)
       IN  /\ inflight' = Append(inflight,
                   Op("logReceipt", "receipts", addReceiptDB(receipt), receipt))
           /\ nextId' = nextId + 1
           /\ clock' = clock + 1
           /\ UNCHANGED lastLog
    /\ UNCHANGED << dbAvail, dbVars, memVars, isDbReady, boot, newStoreName,
                    viewVars, formVars, filesSelected, exported >>

handleLogReceipt ==
    /\ isDbReady
    /\ IF totalVisibleItemCount = 0
       THEN /\ lastLog' = "warn"
            /\ UNCHANGED << inflight, nextId, clock >>
       ELSE LET receipt == ReceiptOf(nextId, clock, filteredAndSortedItems,
                                     filterStatus, searchTerm)
            IN  /\ nextId <= MaxUuid
                /\ clock <= MaxClock
                /\ inflight' = Append(inflight,
                        Op("logReceipt", "receipts", addReceiptDB(receipt), receipt))
                /\ nextId' = nextId + 1
                /\ clock' = clock + 1
                /\ UNCHANGED lastLog
    /\ UNCHANGED << dbAvail, dbVars, memVars, isDbReady, boot, newStoreName,
                    viewVars, formVars, filesSelected, exported >>

\* handleLogReceipt after `await addReceiptDB(receipt)`
handleLogReceiptResume(i) ==
    /\ inflight[i].op = "logReceipt"
    /\ Awaited(inflight[i])
    /\ IF inflight[i].stage = "rejected"
       THEN /\ lastLog' = "error"
            /\ UNCHANGED receipts
       ELSE /\ receipts' = << inflight[i].arg >> \o receipts
            /\ lastLog' = "log"
    /\ inflight' = RemoveAt(inflight, i)
    /\ UNCHANGED << dbAvail, dbVars, items, stores, isDbReady, boot, newStoreName,
                    viewVars, formVars, nextId, clock, filesSelected, exported >>

handleDeleteReceipt(receiptId, isConfirmed) ==
    /\ isDbReady
    /\ IF ~isConfirmed
       THEN UNCHANGED inflight
       ELSE inflight' = Append(inflight,
                Op("deleteReceipt", "receipts", deleteReceiptDB(receiptId), receiptId))
    /\ UNCHANGED << dbAvail, dbVars, memVars, isDbReady, boot, newStoreName,
                    viewVars, formVars, nextId, clock, lastLog, filesSelected, exported >>

\* handleDeleteReceipt after `await deleteReceiptDB(receiptId)`
handleDeleteReceiptResume(i) ==
    /\ inflight[i].op = "deleteReceipt"
    /\ Awaited(inflight[i])
    /\ IF inflight[i].stage = "rejected"
       THEN /\ lastLog' = "error"
            /\ UNCHANGED receipts
       ELSE /\ receipts' = SelectSeq(receipts, LAMBDA r : r.id # inflight[i].arg)
            /\ lastLog' = "log"
    /\ inflight' = RemoveAt(inflight, i)
    /\ UNCHANGED << dbAvail, dbVars, items, stores, isDbReady, boot, newStoreName,
                    viewVars, formVars, nextId, clock, filesSelected, exported >>

(***************************************************************************)
(* Import.  A selected file is a document: text that JSON.parse rejects    *)
(* (json = FALSE), or an object whose items / stores / receipts are arrays *)
(* where the has* flag says so.                                            *)
(***************************************************************************)
Document(its, sts, rcs) ==
    [json |-> TRUE, hasItems |-> TRUE, items |-> its, hasStores |-> TRUE,
     stores |-> sts, hasReceipts |-> TRUE, receipts |-> rcs]

\* !importedData || !Array.isArray(importedData.items) ||
\*     !Array.isArray(importedData.stores), negated; a variant that forgets stores
ValidStructureItemsOnly(doc) == doc.json /\ doc.hasItems

ValidStructure(doc) == doc.json /\ doc.hasItems /\ doc.hasStores

\* arr.slice(0, n)
Slice(arr, n) == SubSeq(arr, 1, IF Len(arr) < n THEN Len(arr) ELSE n)

\* A variant that resets every quantity to 1.
SanitizedItemsQuantityOne(doc) ==
    MapSeq(doc.items, LAMBDA it : [it EXCEPT !.quantity = Num(1)])

SanitizedItems(doc) ==
    MapSeq(doc.items, LAMBDA it : [it EXCEPT !.quantity = ClampQuantity(it.quantity)])

SanitizedStores(doc) == Slice(doc.stores, MAX_REUSABLE_STORES)

SanitizedReceipts(doc) == IF doc.hasReceipts THEN doc.receipts ELSE << >>

\* handleImportData: a file was selected and reader.readAsText(file) started
handleImportData(doc) ==
    /\ isDbReady
    /\ filesSelected < MaxFiles
    /\ filesSelected' = filesSelected + 1
    /\ inflight' = Append(inflight,
            [op |-> "import", stage |-> "reading", doc |-> doc, before |-> Snapshot,
             failed |-> FALSE])
    /\ UNCHANGED << dbAvail, dbVars, memVars, isDbReady, boot, newStoreName,
                    viewVars, formVars, nextId, clock, lastLog, exported >>

\* reader.onerror
ImportReaderError(i) ==
    /\ inflight[i].op = "import"
    /\ inflight[i].stage = "reading"
    /\ lastLog' = "error"
    /\ inflight' = RemoveAt(inflight, i)
    /\ UNCHANGED << dbAvail, dbVars, memVars, isDbReady, boot, newStoreName,
                    viewVars, formVars, nextId, clock, filesSelected, exported >>

\* reader.onload up to the first await: parse, validate, sanitize, and open
\* the items transaction; a throw goes to the catch.
ImportOnLoad(i) ==
    /\ inflight[i].op = "import"
    /\ inflight[i].stage = "reading"
    /\ LET doc == inflight[i].doc
       IN  IF ~ValidStructure(doc)
           THEN /\ lastLog' = "error: invalid file"
                /\ inflight' = RemoveAt(inflight, i)
           ELSE /\ inflight' = [inflight EXCEPT ![i] =
                        [op |-> "import", stage |-> "pending", txNo |-> 1,
                         coll |-> "items", reqs |-> ReplaceAll(SanitizedItems(doc)),
                         arg |-> Collections(SanitizedItems(doc), SanitizedStores(doc),
                                             SanitizedReceipts(doc)),
                         doc |-> doc, before |-> inflight[i].before, failed |-> FALSE]]
                /\ UNCHANGED lastLog
    /\ UNCHANGED << dbAvail, dbVars, memVars, isDbReady, boot, newStoreName,
                    viewVars, formVars, nextId, clock, filesSelected, exported >>

\* reader.onload after each of its three awaits
ImportResume(i) ==
    /\ inflight[i].op = "import"
    /\ inflight[i].stage # "reading"
    /\ Awaited(inflight[i])
    /\ LET o == inflight[i]
       IN  IF o.stage = "rejected"
           THEN /\ lastLog' = "error"
                /\ inflight' = RemoveAt(inflight, i)
                /\ UNCHANGED memVars
           ELSE IF o.txNo = 1
           THEN /\ inflight' = [inflight EXCEPT ![i] =
                        [o EXCEPT !.stage = "pending", !.txNo = 2, !.coll = "stores",
                                  !.reqs = ReplaceAll(o.arg.stores)]]
                /\ UNCHANGED << memVars, lastLog >>
           ELSE IF o.txNo = 2
           THEN /\ inflight' = [inflight EXCEPT ![i] =
                        [o EXCEPT !.stage = "pending", !.txNo = 3, !.coll = "receipts",
                                  !.reqs = ReplaceAll(o.arg.receipts)]]
                /\ UNCHANGED << memVars, lastLog >>
           ELSE /\ items' = o.arg.items
                /\ stores' = o.arg.stores
                /\ receipts' = o.arg.receipts
                /\ lastLog' = "log: imported"
                /\ inflight' = RemoveAt(inflight, i)
    /\ UNCHANGED << dbAvail, dbVars, isDbReady, boot, newStoreName, viewVars,
                    formVars, nextId, clock, filesSelected, exported >>

(***************************************************************************)
(* Export.  The downloaded file is kept as the document JSON.parse reads   *)
(* back from it, together with the collections it was made from; the       *)
(* document's timestamp key is read by nothing and is left out.            *)
(***************************************************************************)
MaxExports == 1

hasData == Len(items) > 0 \/ Len(stores) > 0 \/ Len(receipts) > 0

\* JSON.parse(JSON.stringify(receipt))
JsonCloneReceipt(r) ==
    [r EXCEPT !.estimatedTotal = JsonNumber(r.estimatedTotal),
              !.items = MapSeq(r.items, LAMBDA line :
                            [line EXCEPT !.quantity = JsonNumber(line.quantity),
                                         !.cheapestPrice = JsonNumber(line.cheapestPrice)])]

\* A variant that leaves the receipts out of the file.
ExportDocumentNoReceipts(its, sts, rcs) ==
    Document(MapSeq(its, JsonCloneItem), sts, << >>)

\* JSON.parse(JSON.stringify({ items, stores, receipts, timestamp }, null, 2))
ExportDocument(its, sts, rcs) ==
    Document(MapSeq(its, JsonCloneItem), sts, MapSeq(rcs, JsonCloneReceipt))

handleExportData ==
    /\ isDbReady
    /\ Len(exported) < MaxExports
    /\ IF ~hasData
       THEN /\ lastLog' = "warn"
            /\ UNCHANGED exported
       ELSE /\ exported' = Append(exported,
                    [doc |-> ExportDocument(items, stores, receipts), source |-> Mem])
            /\ UNCHANGED lastLog
    /\ UNCHANGED << dbAvail, dbVars, memVars, isDbReady, boot, inflight, newStoreName,
                    viewVars, formVars, nextId, clock, filesSelected >>

(***************************************************************************)
(* The import input.                                                       *)
(***************************************************************************)
\* The change event of the import input after the user picked a file in the
\* dialog that the menu's Import button opens; the button is rendered while
\* there is no data.  handleFileChange, when attached, calls
\* handleImportData.  The input's own onChange dispatches a further change
\* event on the input from inside the handling of one, which calls onChange
\* again: the event ends in an uncaught RangeError.
importInputChange(doc) ==
    /\ InputRendered(isDbReady)
    /\ ~hasData
    /\ filesSelected < MaxFiles
    /\ IF boot.listener
       THEN handleImportData(doc)
       ELSE /\ filesSelected' = filesSelected + 1
            /\ lastLog' = "error"
            /\ UNCHANGED << dbAvail, dbVars, memVars, isDbReady, boot, inflight,
                            newStoreName, viewVars, formVars, nextId, clock, exported >>

(***************************************************************************)
(* Inputs.                                                                 *)
(***************************************************************************)
Entry(name, price) == [storeName |-> name, price |-> price]

Item(id, name, category, status, quantity, sts) ==
    [id |-> id, name |-> name, category |-> category, status |-> status,
     quantity |-> quantity, stores |-> sts]

\* What the item modal hands to onCreate / onSave: a name that is not blank,
\* a quantity handleQuantityChange produced, price fields as typed.
FormInputs ==
    { Item(NoId, " Milk ", "Dairy", "Depleted", Num(1), << >>),
      Item(NoId, "Bread", "Pantry", "Home Stocked", Num(2),
           << Entry("A", Str("2")), Entry("", Str("")) >>) }

\* The store dropdown of the modal offers the names of the stores list.
NamesOffered(itemData) ==
    \A k \in 1..Len(itemData.stores) :
        \/ itemData.stores[k].storeName = ""
        \/ \E j \in 1..Len(stores) : stores[j].name = itemData.stores[k].storeName

\* one price entry more than the editor lets the user add
ElevenPrices == [k \in 1..(MAX_STORES_PER_ITEM + 1) |-> Entry("B", Num(3))]

ImportedMilk == Item(11, "Milk", "Dairy", "Running Low", Num(0), ElevenPrices)
\* a hand-edited record: text for the quantity, a price row without a store
ImportedBread == Item(12, "Bread", "Pantry", "Depleted", Str("abc"),
                      << Entry("", Str("2")) >>)

NotJson ==
    [json |-> FALSE, hasItems |-> FALSE, items |-> << >>, hasStores |-> FALSE,
     stores |-> << >>, hasReceipts |-> FALSE, receipts |-> << >>]

ImportDocs ==
    { NotJson,
      \* no `stores` key
      [Document(<< ImportedMilk >>, << >>, << >>) EXCEPT !.hasStores = FALSE],
      \* no `items` key
      [Document(<< >>, << [id |-> 21, name |-> "B"] >>, << >>) EXCEPT !.hasItems = FALSE],
      \* a well-formed export without receipts
      [Document(<< ImportedMilk, ImportedBread >>, << [id |-> 21, name |-> "B"] >>, << >>)
          EXCEPT !.hasReceipts = FALSE],
      \* two store records with one id
      Document(<< ImportedMilk >>,
               << [id |-> 21, name |-> "B"], [id |-> 21, name |-> "B"] >>, << >>),
      \* an item record without id after one with
      Document(<< ImportedBread, [ImportedMilk EXCEPT !.id = NoId] >>, << >>, << >>) }

\* A dataset as an earlier export of the application holds it: four items
\* with ties in category, status, cheapest store and price times quantity.
Eggs == Item(31, "Eggs", "Dairy", "Home Stocked", Num(1), << Entry("B", Num(5)) >>)
Milk == Item(32, "Milk", "Dairy", "Running Low", Num(2),
             << Entry("A", Num(3)), Entry("B", Num(2)), Entry("C", Num(2)) >>)
Salt == Item(33, "Salt", "Pantry", "Running Low", Num(1), << Entry("A", Num(0)) >>)
Bread == Item(34, "Bread", "Pantry", "Depleted", Num(1), << Entry("C", Num(4)) >>)

ViewDocs == { Document(<< Eggs, Milk, Salt, Bread >>, << >>, << >>) }

\* A dataset as an earlier export holds it: an item priced at a store of the
\* stores list, and two receipts, the newer one first.  The ids are the
\* random UUIDs of that earlier session: the older receipt has the lower one.
StoreB == [id |-> 21, name |-> "B"]
OlderReceipt == ReceiptOf(41, -1, << Milk >>, "Shopping Cart", "")
NewerReceipt == ReceiptOf(42, 0, << Milk, Bread >>, "Shopping Cart", "")

\* A dataset with an item whose status is none of the three of the cycle.
UnknownSalt == Item(35, "Salt", "Pantry", "Unknown", Num(2), << >>)

CycleDocs == { Document(<< UnknownSalt, Bread >>, << >>, << >>) }

ReceiptDocs == { Document(<< Milk >>, << StoreB >>, << NewerReceipt, OlderReceipt >>) }

(***************************************************************************)
(* The application with its commands issued one at a time.                 *)
(***************************************************************************)
Init ==
    /\ dbAvail \in BOOLEAN
    /\ dbItems = {}
    /\ dbStores = {}
    /\ dbReceipts = {}
    /\ items = << >>
    /\ stores = << >>
    /\ receipts = << >>
    /\ isDbReady = FALSE
    /\ boot = BootStart
    /\ inflight = << >>
    /\ newStoreName = ""
    /\ filterStatus = "All"
    /\ searchTerm = ""
    /\ sortCriteria = << "name", "asc" >>
    /\ modal = "none"
    /\ localItem = << >>
    /\ nextId = 1
    /\ clock = 1
    /\ filesSelected = 0
    /\ exported = << >>
    /\ lastLog = ""

Idle == inflight = << >>

\* The edits of an item the edit modal can hand to onSave.
Edits(it) ==
    { JsonCloneItem(it) } \cup { [d EXCEPT !.id = it.id] : d \in FormInputs }

\* +1 is not clicked beyond MaxQuantity.
WithinQuantity(it, delta) ==
    delta = 1 /\ it.quantity.t = "num" => it.quantity.v < MaxQuantity

Next ==
    \/ loadAllItemsDB
    \/ loadAllStoresDB
    \/ loadAllReceiptsDB
    \/ loadData
    \/ Idle /\ Remount
    \/ Idle /\ \E s \in StoreNameInputs : setNewStoreName(s)
    \/ Idle /\ handleAddStore
    \/ Idle /\ \E k \in 1..Len(stores) : handleDeleteStore(stores[k].id)
    \/ Idle /\ \E d \in FormInputs : NamesOffered(d) /\ handleCreateItem(d)
    \/ Idle /\ \E k \in 1..Len(items) : \E u \in Edits(items[k]) :
                  NamesOffered(u) /\ handleUpdateItem(u)
    \/ Idle /\ \E k \in 1..Len(items) : handleDeleteItem(items[k].id)
    \/ Idle /\ \E k \in 1..Len(items) : \E delta \in { 1, -1 } :
                  WithinQuantity(items[k], delta) /\ handleUpdateQuantity(items[k].id, delta)
    \/ Idle /\ \E k \in 1..Len(items) : handleCycleStatus(items[k].id)
    \/ Idle /\ handleLogReceipt
    \/ Idle /\ \E k \in 1..Len(receipts) : \E c \in BOOLEAN :
                  handleDeleteReceipt(receipts[k].id, c)
    \/ \E i \in 1..Len(inflight) : TransactionSettles(i)
    \/ \E i \in 1..Len(inflight) : handleAddStoreResume(i)
    \/ \E i \in 1..Len(inflight) : handleDeleteStoreResume(i)
    \/ \E i \in 1..Len(inflight) : handleCreateItemResume(i)
    \/ \E i \in 1..Len(inflight) : handleUpdateItemResume(i)
    \/ \E i \in 1..Len(inflight) : handleDeleteItemResume(i)
    \/ \E i \in 1..Len(inflight) : handleUpdateInPlaceResume(i)
    \/ \E i \in 1..Len(inflight) : handleLogReceiptResume(i)
    \/ \E i \in 1..Len(inflight) : handleDeleteReceiptResume(i)

Spec == Init /\ [][Next]_vars

(***************************************************************************)
(* The import procedure over a dataset built by add store, create item and *)
(* log receipt, one command at a time.                                     *)
(***************************************************************************)
NextImport ==
    \/ loadAllItemsDB
    \/ loadAllStoresDB
    \/ loadAllReceiptsDB
    \/ loadData
    \/ Idle /\ Remount
    \/ Idle /\ \E s \in StoreNameInputs : setNewStoreName(s)
    \/ Idle /\ handleAddStore
    \/ Idle /\ \E d \in FormInputs : NamesOffered(d) /\ handleCreateItem(d)
    \/ Idle /\ handleLogReceipt
    \/ Idle /\ \E doc \in ImportDocs : handleImportData(doc)
    \/ \E i \in 1..Len(inflight) : TransactionSettles(i)
    \/ \E i \in 1..Len(inflight) : handleAddStoreResume(i)
    \/ \E i \in 1..Len(inflight) : handleCreateItemResume(i)
    \/ \E i \in 1..Len(inflight) : handleLogReceiptResume(i)
    \/ \E i \in 1..Len(inflight) : ImportReaderError(i)
    \/ \E i \in 1..Len(inflight) : ImportOnLoad(i)
    \/ \E i \in 1..Len(inflight) : ImportResume(i)

SpecImport == Init /\ [][NextImport]_vars

(***************************************************************************)
(* Write-through.                                                          *)
(***************************************************************************)
\* C1: the in-memory items, stores and receipts change only in the step that
\* continues a handler whose write transaction has completed, the persisted
\* collection then holding the handler's write, and only the collection the
\* handler wrote changes (the load at boot and the reset at mount apart).
C1_MemoryAfterCommit ==
    [][ (Mem' # Mem /\ isDbReady /\ isDbReady') =>
            \E i \in 1..Len(inflight) :
                LET o == inflight[i]
                IN  /\ o.stage = "resolved"
                    /\ ~o.failed
                    /\ Db[o.coll] = RunRequests(o.before.db[o.coll], o.reqs).coll
                    /\ \A c \in CollectionNames \ { o.coll } : Mem'[c] = Mem[c]
      ]_vars

\* A create whose transaction has completed and whose continuation has not
\* run yet: the item is persisted and not yet in the list.
C1_Witness ==
    \E i \in 1..Len(inflight) :
        /\ inflight[i].op = "createItem"
        /\ inflight[i].stage = "resolved"
        /\ inflight[i].arg \in dbItems
        /\ inflight[i].arg \notin Range(items)

\* C2: once the write transaction of a CRUD handler has failed, the persisted
\* and the in-memory collections are what they were when the handler was
\* invoked and stay so through its catch, which only logs an error.
C2_FailedWriteChangesNothing ==
    [][ \A i \in 1..Len(inflight) :
            inflight[i].failed =>
                /\ Snapshot = inflight[i].before
                /\ Snapshot' = inflight[i].before
                /\ inflight' # inflight =>
                      /\ inflight' = RemoveAt(inflight, i)
                      /\ lastLog' = "error"
                      /\ UNCHANGED << newStoreName, viewVars, formVars, isDbReady >>
      ]_vars

\* A failed write has been caught and logged while the dataset is not empty.
C2_Witness ==
    /\ isDbReady
    /\ Idle
    /\ lastLog = "error"
    /\ items # << >>
    /\ dbItems # {}

NoDuplicates(seq) == \A i, j \in 1..Len(seq) : seq[i] = seq[j] => i = j

\* C3 as stated: after boot, whenever no command is in flight, the lists hold
\* exactly the records of the persisted collections.
C3_CacheEqualsStore ==
    (isDbReady /\ Idle) =>
        /\ Range(items) = dbItems /\ NoDuplicates(items)
        /\ Range(stores) = dbStores /\ NoDuplicates(stores)
        /\ Range(receipts) = dbReceipts /\ NoDuplicates(receipts)

AtLeastOne(q) == q.t = "num" /\ q.v >= 1

\* C5 as stated: every item, in memory and persisted, has quantity >= 1.
C5_QuantityFloor ==
    \A it \in Range(items) \cup dbItems : AtLeastOne(it.quantity)

\* C6: a selected file that does not parse, or lacks an items array or a
\* stores array, ends in the catch: no transaction is opened and the six
\* collections stay what they were when the file was selected.
C6_InvalidImportRejected ==
    [][ \A i \in 1..Len(inflight) :
            ( /\ inflight[i].op = "import"
              /\ inflight[i].stage = "reading"
              /\ ~(inflight[i].doc.json /\ inflight[i].doc.hasItems
                                        /\ inflight[i].doc.hasStores) ) =>
                /\ Snapshot = inflight[i].before
                /\ Snapshot' = inflight[i].before
                /\ inflight' # inflight => inflight' = RemoveAt(inflight, i)
      ]_vars

\* An invalid file has been rejected over a dataset that is not empty.
C6_Witness ==
    /\ Idle
    /\ lastLog = "error: invalid file"
    /\ items # << >>
    /\ dbItems # {}
    /\ dbStores # {}

\* C7 as stated: when one of the import's three transactions has failed, the
\* six collections are what they were when the file was selected.
C7_ImportAllOrNothing ==
    \A i \in 1..Len(inflight) :
        (inflight[i].op = "import" /\ inflight[i].failed) =>
            Snapshot = inflight[i].before

(***************************************************************************)
(* Boot.  The event loop runs a continuation that is ready, so the steps   *)
(* of loadData are taken when they can be.                                 *)
(***************************************************************************)
NextBoot ==
    \/ loadAllItemsDB
    \/ loadAllStoresDB
    \/ loadAllReceiptsDB
    \/ loadData
    \/ Idle /\ Remount
    \/ Idle /\ \E s \in StoreNameInputs : setNewStoreName(s)
    \/ Idle /\ handleAddStore
    \/ Idle /\ \E k \in 1..Len(stores) : handleDeleteStore(stores[k].id)
    \/ \E i \in 1..Len(inflight) : TransactionSettles(i)
    \/ \E i \in 1..Len(inflight) : handleAddStoreResume(i)
    \/ \E i \in 1..Len(inflight) : handleDeleteStoreResume(i)

SpecBoot ==
    /\ Init
    /\ [][NextBoot]_vars
    /\ WF_vars(loadAllItemsDB \/ loadAllStoresDB \/ loadAllReceiptsDB \/ loadData)

\* C4 as stated: when the host offers no persistent storage, the load still
\* ends: isDbReady becomes true with the three lists empty.
C4_BootsWithoutStorage ==
    ~dbAvail ~> (isDbReady /\ items = << >> /\ stores = << >> /\ receipts = << >>)

\* With storage, every mount does reach the application screen.
BootsWithStorage == (dbAvail /\ ~isDbReady) ~> isDbReady

(***************************************************************************)
(* The stores list at its cap: add store, delete of the first or the last  *)
(* store of the list, and the import of a document with one store more     *)
(* than the cap, one command at a time.                                    *)
(***************************************************************************)
ManyStores == [k \in 1..(MAX_REUSABLE_STORES + 1) |-> [id |-> 100 + k, name |-> "B"]]

StoreDocs == { Document(<< >>, ManyStores, << >>) }

NextStores ==
    \/ loadAllItemsDB
    \/ loadAllStoresDB
    \/ loadAllReceiptsDB
    \/ loadData
    \/ Idle /\ \E s \in StoreNameInputs : setNewStoreName(s)
    \/ Idle /\ handleAddStore
    \/ Idle /\ \E k \in { 1, Len(stores) } \cap (1..Len(stores)) :
                  handleDeleteStore(stores[k].id)
    \/ Idle /\ \E doc \in StoreDocs : handleImportData(doc)
    \/ \E i \in 1..Len(inflight) : TransactionSettles(i)
    \/ \E i \in 1..Len(inflight) : handleAddStoreResume(i)
    \/ \E i \in 1..Len(inflight) : handleDeleteStoreResume(i)
    \/ \E i \in 1..Len(inflight) : ImportReaderError(i)
    \/ \E i \in 1..Len(inflight) : ImportOnLoad(i)
    \/ \E i \in 1..Len(inflight) : ImportResume(i)

SpecStores == Init /\ [][NextStores]_vars

\* C8 as stated: with commands issued one at a time, neither the persisted
\* nor the in-memory stores ever number more than 50.
C8_StoreCap ==
    /\ Cardinality(dbStores) <= MAX_REUSABLE_STORES
    /\ Len(stores) <= MAX_REUSABLE_STORES

\* The in-memory list alone does stay within the cap.
StoresListWithinCap == Len(stores) <= MAX_REUSABLE_STORES

\* The import in flight at i sets the in-memory collections in this step.
ImportCompletes(i) ==
    /\ i \in 1..Len(inflight)
    /\ inflight[i].op = "import"
    /\ inflight[i].stage = "resolved"
    /\ inflight[i].txNo = 3
    /\ inflight' = RemoveAt(inflight, i)

\* What create and edit guarantee of a saved item: trimmed name, quantity
\* at least 1, and price rows with a store name and a numeric price.
SanitizedAsCreate(it) ==
    /\ Trim(it.name) = it.name
    /\ AtLeastOne(it.quantity)
    /\ \A k \in 1..Len(it.stores) :
          it.stores[k].storeName # "" /\ it.stores[k].price.t = "num"

\* C11 as stated: when an import succeeds, every item it stores is sanitized
\* as create and edit sanitize, and the stores collection is the first 50
\* entries of the document's stores.
C11_ImportSanitizes ==
    [][ \A i \in 1..Len(inflight) : ImportCompletes(i) =>
            /\ \A k \in 1..Len(items') : SanitizedAsCreate(items'[k])
            /\ \A it \in dbItems : SanitizedAsCreate(it)
            /\ stores' = Slice(inflight[i].doc.stores, MAX_REUSABLE_STORES) ]_vars

(***************************************************************************)
(* The item modal: AddItemModal / ItemEditModal with ItemForm and          *)
(* StorePriceEditor.  The user works on the last row of the price list,    *)
(* choosing the store before typing the price.                             *)
(***************************************************************************)
\* AddItemModal: useState({ id: crypto.randomUUID(), name: '', ... }); the id
\* is replaced by handleCreateItem and is not modelled.
NewLocalItem == Item(NoId, "", "Produce", "Depleted", Num(1), << >>)

OpenAddItemModal ==
    /\ isDbReady
    /\ modal = "none"
    /\ modal' = "add"
    /\ localItem' = NewLocalItem
    /\ UNCHANGED << dbAvail, dbVars, memVars, isDbReady, boot, inflight,
                    newStoreName, viewVars, nextId, clock, lastLog, filesSelected, exported >>

\* setEditingItem(item): ItemEditModal clones the item
OpenEditModal(item) ==
    /\ isDbReady
    /\ modal = "none"
    /\ modal' = "edit"
    /\ localItem' = JsonCloneItem(item)
    /\ UNCHANGED << dbAvail, dbVars, memVars, isDbReady, boot, inflight,
                    newStoreName, viewVars, nextId, clock, lastLog, filesSelected, exported >>

\* onClose
CloseModal ==
    /\ modal # "none"
    /\ modal' = "none"
    /\ localItem' = << >>
    /\ UNCHANGED << dbAvail, dbVars, memVars, isDbReady, boot, inflight,
                    newStoreName, viewVars, nextId, clock, lastLog, filesSelected, exported >>

\* A change of localItem alone.
SetLocalItem(new) ==
    /\ modal # "none"
    /\ localItem' = new
    /\ UNCHANGED << dbAvail, dbVars, memVars, isDbReady, boot, inflight,
                    newStoreName, viewVars, modal, nextId, clock, lastLog,
                    filesSelected, exported >>

NameInputs == { " Milk " }
QuantityInputs == { "", "2" }
PriceInputs == { "", "0", "2" }

\* onChange of the Item Name input
setLocalName(text) == SetLocalItem([localItem EXCEPT !.name = text])

\* parseInt(text) on the strings of the inputs: no leading digits give NaN
ParseInt(text) == IF text = "" THEN NaN ELSE StringToNumber(text)

handleQuantityChange(text) ==
    SetLocalItem([localItem EXCEPT
        !.quantity = MathMax(1, OrElse(ParseInt(text), Num(1)))])

handleAddStorePrice ==
    /\ modal # "none"
    /\ IF Len(localItem.stores) >= MAX_STORES_PER_ITEM
       THEN UNCHANGED localItem
       ELSE localItem' = [localItem EXCEPT
                !.stores = Append(localItem.stores, Entry("", Str("")))]
    /\ UNCHANGED << dbAvail, dbVars, memVars, isDbReady, boot, inflight,
                    newStoreName, viewVars, modal, nextId, clock, lastLog,
                    filesSelected, exported >>

\* getAvailableStoreOptions(index, stores, item.stores), as store names
AvailableStoreOptions(index) ==
    LET usedNames == { localItem.stores[k].storeName :
                          k \in { j \in 1..Len(localItem.stores) :
                                     j # index /\ localItem.stores[j].storeName # "" } }
    IN  { stores[k].name : k \in { j \in 1..Len(stores) : stores[j].name \notin usedNames } }

handleUpdateStorePrice(index, key, value) ==
    /\ modal # "none"
    /\ index \in 1..Len(localItem.stores)
    /\ SetLocalItem([localItem EXCEPT
            !.stores[index] = IF key = "storeName"
                              THEN [@ EXCEPT !.storeName = value]
                              ELSE [@ EXCEPT !.price = Str(value)]])

handleRemoveStorePrice(index) ==
    /\ modal # "none"
    /\ index \in 1..Len(localItem.stores)
    /\ SetLocalItem([localItem EXCEPT
            !.stores = SelectSeqIdx(localItem.stores, LAMBDA k : k # index)])

\* AddItemModal.handleCreate
handleCreate ==
    /\ modal = "add"
    /\ IF Trim(localItem.name) = ""
       THEN UNCHANGED vars
       ELSE handleCreateItem(localItem)

\* ItemEditModal.handleSave; the Save button is disabled on a blank name
handleSave ==
    /\ modal = "edit"
    /\ Trim(localItem.name) # ""
    /\ handleUpdateItem(localItem)

LastRow == IF modal = "none" THEN 0 ELSE Len(localItem.stores)

NextForm ==
    \/ loadAllItemsDB
    \/ loadAllStoresDB
    \/ loadAllReceiptsDB
    \/ loadData
    \/ Idle /\ \E s \in StoreNameInputs : setNewStoreName(s)
    \/ Idle /\ handleAddStore
    \/ Idle /\ OpenAddItemModal
    \/ Idle /\ \E k \in 1..Len(items) : OpenEditModal(items[k])
    \/ Idle /\ CloseModal
    \/ Idle /\ \E text \in NameInputs : setLocalName(text)
    \/ Idle /\ \E text \in QuantityInputs : handleQuantityChange(text)
    \/ Idle /\ handleAddStorePrice
    \/ Idle /\ LastRow > 0
            /\ \E name \in AvailableStoreOptions(LastRow) :
                  handleUpdateStorePrice(LastRow, "storeName", name)
    \/ Idle /\ \E text \in PriceInputs :
                  /\ LastRow > 0
                  /\ localItem.stores[LastRow].storeName # ""
                  /\ handleUpdateStorePrice(LastRow, "price", text)
    \/ Idle /\ handleRemoveStorePrice(LastRow)
    \/ Idle /\ handleCreate
    \/ Idle /\ handleSave
    \/ \E i \in 1..Len(inflight) : TransactionSettles(i)
    \/ \E i \in 1..Len(inflight) : handleAddStoreResume(i)
    \/ \E i \in 1..Len(inflight) : handleCreateItemResume(i)
    \/ \E i \in 1..Len(inflight) : handleUpdateItemResume(i)

SpecForm == Init /\ [][NextForm]_vars

ValidEntry(e) == e.storeName # "" /\ e.price.t = "num" /\ e.price.v > 0

\* C9 as stated: every persisted and in-memory item has at most 10
\* store-price entries.
C9_PricesPerItemCap ==
    \A it \in Range(items) \cup dbItems : Len(it.stores) <= MAX_STORES_PER_ITEM

\* C10 as stated: every item saved through create or edit, persisted or in
\* memory, has only entries with a non-empty storeName and a numeric price
\* greater than 0.
C10_SavedEntriesValid ==
    \A it \in Range(items) \cup dbItems :
        \A k \in 1..Len(it.stores) : ValidEntry(it.stores[k])

(***************************************************************************)
(* Export and re-import of a dataset built by the application's commands,  *)
(* one command at a time.                                                  *)
(***************************************************************************)
NextExport ==
    \/ loadAllItemsDB
    \/ loadAllStoresDB
    \/ loadAllReceiptsDB
    \/ loadData
    \/ Idle /\ \E s \in StoreNameInputs : setNewStoreName(s)
    \/ Idle /\ handleAddStore
    \/ Idle /\ \E d \in FormInputs : NamesOffered(d) /\ handleCreateItem(d)
    \/ Idle /\ \E k \in 1..Len(items) : handleDeleteItem(items[k].id)
    \/ Idle /\ handleLogReceipt
    \/ Idle /\ handleExportData
    \/ Idle /\ \E k \in 1..Len(exported) : handleImportData(exported[k].doc)
    \/ \E i \in 1..Len(inflight) : TransactionSettles(i)
    \/ \E i \in 1..Len(inflight) : handleAddStoreResume(i)
    \/ \E i \in 1..Len(inflight) : handleCreateItemResume(i)
    \/ \E i \in 1..Len(inflight) : handleDeleteItemResume(i)
    \/ \E i \in 1..Len(inflight) : handleLogReceiptResume(i)
    \/ \E i \in 1..Len(inflight) : ImportReaderError(i)
    \/ \E i \in 1..Len(inflight) : ImportOnLoad(i)
    \/ \E i \in 1..Len(inflight) : ImportResume(i)

SpecExport == Init /\ [][NextExport]_vars

\* The persisted collections hold exactly the records of m.
PersistedIs(m) ==
    /\ dbItems = Range(m.items)
    /\ dbStores = Range(m.stores)
    /\ dbReceipts = Range(m.receipts)

\* C12: when the import of an exported file succeeds, the in-memory and the
\* persisted items, stores and receipts are the ones the file was exported
\* from.
C12_RoundTrip ==
    [][ \A i \in 1..Len(inflight) : ImportCompletes(i) =>
            \A k \in 1..Len(exported) :
                exported[k].doc = inflight[i].doc =>
                    /\ Mem' = exported[k].source
                    /\ PersistedIs(exported[k].source)' ]_vars

\* A re-import has succeeded over a dataset with an item and a receipt.
C12_Witness ==
    /\ Idle
    /\ lastLog = "log: imported"
    /\ exported # << >>
    /\ items # << >> /\ receipts # << >>
    /\ Mem = exported[1].source
    /\ PersistedIs(Mem)

NextView ==
    \/ loadAllItemsDB
    \/ loadAllStoresDB
    \/ loadAllReceiptsDB
    \/ loadData
    \/ Idle /\ \E doc \in ViewDocs : handleImportData(doc)
    \/ Idle /\ \E d \in FormInputs : NamesOffered(d) /\ handleCreateItem(d)
    \/ Idle /\ \E text \in SearchInputs : setSearchTerm(text)
    \/ Idle /\ \E value \in CombinedOptions : handleCombinedChange(value)
    \/ Idle /\ handleLogReceipt
    \/ \E i \in 1..Len(inflight) : TransactionSettles(i)
    \/ \E i \in 1..Len(inflight) : handleCreateItemResume(i)
    \/ \E i \in 1..Len(inflight) : handleLogReceiptResume(i)
    \/ \E i \in 1..Len(inflight) : ImportReaderError(i)
    \/ \E i \in 1..Len(inflight) : ImportOnLoad(i)
    \/ \E i \in 1..Len(inflight) : ImportResume(i)

SpecView == Init /\ [][NextView]_vars

\* The positions of the price rows of an item with a price above 0.
ValidRows(it) ==
    { k \in 1..Len(it.stores) : it.stores[k].price.t = "num" /\ it.stores[k].price.v > 0 }

\* C14: for every item, getCheapestOption returns price null and store "N/A"
\* when no price row has a price above 0, and otherwise the first of the rows
\* with the lowest price above 0.
C14_CheapestOption ==
    \A it \in Range(items) :
        LET r == getCheapestOption(it)
        IN  IF ValidRows(it) = {}
            THEN r = [price |-> Null, storeName |-> "N/A"]
            ELSE \E k \in ValidRows(it) :
                    /\ r = [price |-> it.stores[k].price,
                            storeName |-> it.stores[k].storeName]
                    /\ \A j \in ValidRows(it) :
                          /\ it.stores[j].price.v >= it.stores[k].price.v
                          /\ j < k => it.stores[j].price.v > it.stores[k].price.v

\* An item whose lowest price is shared by its second and third row, after a
\* dearer first row, and one whose only row has price 0.
C14_Witness ==
    /\ \E it \in Range(items) :
          /\ Len(it.stores) = 3
          /\ it.stores[2].price = it.stores[3].price
          /\ it.stores[1].price.v > it.stores[2].price.v
          /\ getCheapestOption(it).storeName = it.stores[2].storeName
    /\ \E it \in Range(items) :
          /\ Len(it.stores) = 1
          /\ ValidRows(it) = {}
          /\ getCheapestOption(it).storeName = "N/A"

\* The item passes the search box and the status filter.
PassesFilters(it) ==
    /\ \/ Trim(ToLowerCase(searchTerm)) = ""
       \/ Includes(ToLowerCase(it.name), Trim(ToLowerCase(searchTerm)))
    /\ \/ filterStatus = "All"
       \/ filterStatus = it.status
       \/ filterStatus = "Shopping Cart" /\ it.status \in { "Depleted", "Running Low" }

\* How many times the record occurs in the sequence.
Occurrences(seq, x) == Cardinality({ k \in 1..Len(seq) : seq[k] = x })

\* C15: the visible list holds exactly the items that pass both the search
\* and the status filter, each once.
C15_FiltersCompose ==
    /\ \A it \in Range(items) :
          Occurrences(filteredAndSortedItems, it)
              = IF PassesFilters(it) THEN Occurrences(items, it) ELSE 0
    /\ Range(filteredAndSortedItems) \subseteq Range(items)
    /\ \A j, k \in 1..Len(items) : items[j].id = items[k].id => j = k

\* Both filters are active, some items pass both, some fail only the search
\* and some fail only the status filter.
C15_Witness ==
    /\ Trim(ToLowerCase(searchTerm)) # ""
    /\ filterStatus # "All"
    /\ filteredAndSortedItems # << >>
    /\ \E it \in Range(items) :
          /\ ~Includes(ToLowerCase(it.name), Trim(ToLowerCase(searchTerm)))
          /\ filterStatus \in { it.status, "Shopping Cart" }
    /\ \E it \in Range(items) :
          /\ Includes(ToLowerCase(it.name), Trim(ToLowerCase(searchTerm)))
          /\ filterStatus \notin { it.status, "Shopping Cart" }

\* The item has a valid price: cheapestOption(item).price is not null.
Priced(it) == getCheapestOption(it).price # Null

\* cheapestOption(item).price times quantity of a priced item, as an integer.
PriceTimesQuantity(it) == ToNumber(getCheapestOption(it).price).v * ToNumber(it.quantity).v

\* C16: under the sort cheapestPrice ascending the visible list is ordered by
\* non-decreasing price times quantity, and every item without a valid price
\* comes after every item with one.
C16_CheapestPriceAscending ==
    sortCriteria = << "cheapestPrice", "asc" >> =>
        \A i, j \in 1..Len(filteredAndSortedItems) :
            (i < j /\ Priced(filteredAndSortedItems[j])) =>
                /\ Priced(filteredAndSortedItems[i])
                /\ PriceTimesQuantity(filteredAndSortedItems[i])
                       <= PriceTimesQuantity(filteredAndSortedItems[j])

\* Under cheapestPrice ascending the list holds an unpriced item that stands
\* before a priced one in items, and a dearer item that stands before a
\* cheaper one in items.
C16_Witness ==
    /\ sortCriteria = << "cheapestPrice", "asc" >>
    /\ \E i, j \in 1..Len(items) :
          /\ i < j
          /\ PassesFilters(items[i]) /\ PassesFilters(items[j])
          /\ ~Priced(items[i]) /\ Priced(items[j])
    /\ \E i, j \in 1..Len(items) :
          /\ i < j
          /\ PassesFilters(items[i]) /\ PassesFilters(items[j])
          /\ Priced(items[i]) /\ Priced(items[j])
          /\ PriceTimesQuantity(items[i]) > PriceTimesQuantity(items[j])

\* The value the comparator of the current sort criterion compares.
SortKey(it) ==
    CASE sortCriteria[1] = "name" -> ToLowerCase(it.name)
      [] sortCriteria[1] = "category" -> ToLowerCase(it.category)
      [] sortCriteria[1] = "status" -> it.status
      [] sortCriteria[1] = "cheapestPrice" ->
            IF Priced(it) THEN Num(PriceTimesQuantity(it)) ELSE Infinity
      [] sortCriteria[1] = "store" -> ToLowerCase(getCheapestOption(it).storeName)

\* The position of the item in the items list.
PositionInItems(it) == CHOOSE k \in 1..Len(items) : items[k].id = it.id

\* C17: two visible items with equal sort keys stand in the visible list in
\* the order they have in the items list, for every sort option.
C17_SortStable ==
    \A i, j \in 1..Len(filteredAndSortedItems) :
        (i < j /\ SortKey(filteredAndSortedItems[i]) = SortKey(filteredAndSortedItems[j])) =>
            PositionInItems(filteredAndSortedItems[i])
                < PositionInItems(filteredAndSortedItems[j])

\* Sorted by cost, the list holds two priced items of equal cost and two
\* unpriced items, and the sort has moved an item.
C17_Witness ==
    /\ sortCriteria[1] = "cheapestPrice"
    /\ \E i, j \in 1..Len(filteredAndSortedItems) :
          /\ i < j
          /\ Priced(filteredAndSortedItems[i])
          /\ SortKey(filteredAndSortedItems[i]) = SortKey(filteredAndSortedItems[j])
    /\ \E i, j \in 1..Len(filteredAndSortedItems) :
          /\ i < j
          /\ ~Priced(filteredAndSortedItems[i])
          /\ ~Priced(filteredAndSortedItems[j])
    /\ \E i, j \in 1..Len(filteredAndSortedItems) :
          /\ i < j
          /\ PositionInItems(filteredAndSortedItems[i])
                > PositionInItems(filteredAndSortedItems[j])

\* C18: choosing a sort option of the select sets the status filter to All
\* whatever it was, and a change of the search term changes neither the
\* status filter nor the sort criterion.
C18_SortResetsFilter ==
    [][ /\ \A value \in CombinedOptions :
              (value[1] = "sort-" /\ handleCombinedChange(value)) =>
                  /\ filterStatus' = "All"
                  /\ sortCriteria' = value[2]
        /\ sortCriteria' # sortCriteria => filterStatus' = "All"
        /\ searchTerm' # searchTerm => UNCHANGED << filterStatus, sortCriteria >> ]_vars

\* A sort other than the initial one is in force with the filter at All while
\* a search term is typed in.
C18_Witness ==
    /\ sortCriteria # << "name", "asc" >>
    /\ filterStatus = "All"
    /\ Trim(ToLowerCase(searchTerm)) # ""
    /\ items # << >>

\* The sum of price times quantity over the priced items of a list.
SumOfCosts(seq) ==
    LET S[n \in 0..Len(seq)] ==
            IF n = 0 THEN 0
            ELSE S[n-1] + (IF Priced(seq[n]) THEN PriceTimesQuantity(seq[n]) ELSE 0)
    IN  S[Len(seq)]

\* C19: the visible count is the length of the current visible list, which
\* is the number of items passing the current filters, and the estimated
\* total is the sum over the current visible list of the cheapest price (0
\* when there is none) times the quantity.
C19_Aggregates ==
    /\ totalVisibleItemCount = Len(filteredAndSortedItems)
    /\ totalVisibleItemCount
          = Cardinality({ k \in 1..Len(items) : PassesFilters(items[k]) })
    /\ totalEstimatedCost = Num(SumOfCosts(filteredAndSortedItems))
    /\ totalEstimatedCost
          = Num(SumOfCosts(SelectSeq(items, PassesFilters)))

\* Filters hide some of the items, and the visible ones include an unpriced
\* item and a priced item with a quantity above 1.
C19_Witness ==
    /\ 0 < totalVisibleItemCount
    /\ totalVisibleItemCount < Len(items)
    /\ totalEstimatedCost.v > 0
    /\ \E it \in Range(filteredAndSortedItems) : ~Priced(it)
    /\ \E it \in Range(filteredAndSortedItems) : Priced(it) /\ it.quantity.v > 1
    /\ sortCriteria # << "name", "asc" >>

\* C20: logging a receipt while the visible list is empty starts no write
\* and leaves the persisted and the in-memory receipts as they are, and every
\* receipt that logging writes or shows has an itemCount of at least 1.
C20_EmptyReceiptGuard ==
    [][ /\ (handleLogReceipt /\ totalVisibleItemCount = 0) =>
              UNCHANGED << dbVars, receipts, inflight >>
        /\ \A k \in 1..Len(inflight') :
              inflight'[k].op = "logReceipt" => inflight'[k].arg.itemCount >= 1
        /\ \A k \in 1..Len(receipts') : receipts'[k].itemCount >= 1
        /\ \A r \in dbReceipts' : r.itemCount >= 1 ]_vars

\* Logging was refused on an empty visible list of a non-empty items list,
\* after a receipt had been logged and stored.
C20_Witness ==
    /\ lastLog = "warn"
    /\ items # << >>
    /\ totalVisibleItemCount = 0
    /\ receipts # << >>
    /\ \E r \in dbReceipts : r = receipts[1]
    /\ inflight = << >>

(***************************************************************************)
(* A logged receipt and the item and store commands that follow it, over   *)
(* an imported dataset, one command at a time.                             *)
(***************************************************************************)
NextReceipts ==
    \/ loadAllItemsDB
    \/ loadAllStoresDB
    \/ loadAllReceiptsDB
    \/ loadData
    \/ Idle /\ \E doc \in ReceiptDocs : handleImportData(doc)
    \/ Idle /\ setNewStoreName(" A ")
    \/ Idle /\ handleAddStore
    \/ Idle /\ \E k \in 1..Len(stores) : handleDeleteStore(stores[k].id)
    \/ Idle /\ \E d \in FormInputs : NamesOffered(d) /\ handleCreateItem(d)
    \/ Idle /\ items # << >> /\ \E u \in { [d EXCEPT !.id = items[1].id] : d \in FormInputs } :
                  NamesOffered(u) /\ handleUpdateItem(u)
    \/ Idle /\ \E k \in 1..Len(items) : handleDeleteItem(items[k].id)
    \/ Idle /\ \E k \in 1..Len(items) : \E delta \in { -1 } :
                  WithinQuantity(items[k], delta) /\ handleUpdateQuantity(items[k].id, delta)
    \/ Idle /\ \E k \in 1..Len(items) : handleCycleStatus(items[k].id)
    \/ Idle /\ handleLogReceipt
    \/ \E i \in 1..Len(inflight) : TransactionSettles(i)
    \/ \E i \in 1..Len(inflight) : handleAddStoreResume(i)
    \/ \E i \in 1..Len(inflight) : handleDeleteStoreResume(i)
    \/ \E i \in 1..Len(inflight) : handleCreateItemResume(i)
    \/ \E i \in 1..Len(inflight) : handleUpdateItemResume(i)
    \/ \E i \in 1..Len(inflight) : handleDeleteItemResume(i)
    \/ \E i \in 1..Len(inflight) : handleUpdateInPlaceResume(i)
    \/ \E i \in 1..Len(inflight) : handleLogReceiptResume(i)
    \/ \E i \in 1..Len(inflight) : ImportReaderError(i)
    \/ \E i \in 1..Len(inflight) : ImportOnLoad(i)
    \/ \E i \in 1..Len(inflight) : ImportResume(i)

SpecReceipts == Init /\ [][NextReceipts]_vars

\* The receipt records of a list or a collection that carry the id.
WithId(recs, id) == { r \in recs : r.id = id }

ItemAndStoreOps ==
    { "createItem", "updateItem", "deleteItem", "updateQuantity", "cycleStatus",
      "addStore", "deleteStore" }

\* C21: no step of an item command or a store command changes the receipts,
\* in memory or persisted, and no step at all changes a field of a receipt
\* that is still there after it.
C21_ReceiptImmutable ==
    [][ /\ (\E i \in 1..Len(inflight) :
                /\ inflight[i].op \in ItemAndStoreOps
                /\ \/ Len(inflight') < Len(inflight)
                   \/ inflight'[i].stage # inflight[i].stage) =>
              UNCHANGED << receipts, dbReceipts >>
        /\ (Idle /\ ~Idle' /\ inflight'[1].op \in ItemAndStoreOps) =>
              UNCHANGED << receipts, dbReceipts >>
        /\ \A r \in Range(receipts) \cup dbReceipts :
              /\ WithId(Range(receipts'), r.id) \subseteq { r }
              /\ WithId(dbReceipts', r.id) \subseteq { r } ]_vars

\* A logged receipt, in memory and persisted, lists an item that has since
\* been deleted and an item whose quantity and status have since changed,
\* after a store was deleted.
C21_Witness ==
    /\ Idle
    /\ stores = << >>
    /\ \E r \in Range(receipts) \cap dbReceipts :
          /\ r.timestamp >= 1
          /\ \E e \in Range(r.items) : \A it \in Range(items) : it.id # e.id
          /\ \E e \in Range(r.items) : \E it \in Range(items) :
                /\ it.id = e.id
                /\ it.quantity # e.quantity
                /\ it.status # e.status

\* The sum over receipt entries of cheapestPrice (0 when null) times quantity.
SumOfEntries(entries) ==
    LET S[n \in 0..Len(entries)] ==
            IF n = 0 THEN 0
            ELSE S[n-1] + (IF entries[n].cheapestPrice = Null THEN 0
                           ELSE ToNumber(entries[n].cheapestPrice).v
                                    * ToNumber(entries[n].quantity).v)
    IN  S[Len(entries)]

\* The receipt is a snapshot of the list: one entry per item in order.
SnapshotOf(rc, visible) ==
    /\ Len(rc.items) = Len(visible)
    /\ \A k \in 1..Len(visible) :
          /\ rc.items[k].id = visible[k].id
          /\ rc.items[k].name = visible[k].name
          /\ rc.items[k].quantity = visible[k].quantity
          /\ rc.items[k].status = visible[k].status
          /\ rc.items[k].cheapestPrice = getCheapestOption(visible[k]).price
          /\ rc.items[k].cheapestStore = getCheapestOption(visible[k]).storeName
    /\ rc.itemCount = Len(rc.items)
    /\ rc.estimatedTotal = Num(SumOfEntries(rc.items))

\* C22: the receipt that logging builds is a snapshot of the visible list of
\* that moment, entry by entry in visible order, with itemCount the number
\* of entries and estimatedTotal the sum of cheapestPrice (0 when null) times
\* quantity over them, and that receipt is the one stored and shown.
C22_ReceiptSnapshot ==
    [][ /\ (handleLogReceipt /\ totalVisibleItemCount > 0) =>
              /\ Len(inflight') = Len(inflight) + 1
              /\ inflight'[Len(inflight')].op = "logReceipt"
              /\ SnapshotOf(inflight'[Len(inflight')].arg, filteredAndSortedItems)
        /\ \A i \in 1..Len(inflight) :
              (handleLogReceiptResume(i) /\ inflight[i].stage = "resolved") =>
                  /\ receipts' = << inflight[i].arg >> \o receipts
                  /\ inflight[i].arg \in dbReceipts
                  /\ SnapshotOf(inflight[i].arg,
                         FilteredAndSorted(inflight[i].before.mem.items, searchTerm,
                                           filterStatus, sortCriteria)) ]_vars

\* A receipt was logged from a filtered, searched and sorted list that is
\* shorter than the items list, and lists an unpriced and a priced item.
C22_Witness ==
    /\ Idle
    /\ receipts # << >>
    /\ receipts[1] \in dbReceipts
    /\ filterStatus # "All"
    /\ Trim(ToLowerCase(searchTerm)) # ""
    /\ sortCriteria # << "name", "asc" >>
    /\ receipts[1].itemCount >= 2
    /\ receipts[1].itemCount < Len(items)
    /\ SnapshotOf(receipts[1], filteredAndSortedItems)
    /\ \E e \in Range(receipts[1].items) : e.cheapestPrice = Null
    /\ \E e \in Range(receipts[1].items) : e.cheapestPrice # Null

(***************************************************************************)
(* Receipts across a reload of the page.  The application is opened on a   *)
(* database that an earlier session left with two items in it.             *)
(***************************************************************************)
\* The application opened on a database that an earlier session left with
\* these items and stores in it, at the given time.
InitOn(its, sts, now) ==
    /\ dbAvail \in BOOLEAN
    /\ dbItems = its
    /\ dbStores = sts
    /\ dbReceipts = {}
    /\ items = << >>
    /\ stores = << >>
    /\ receipts = << >>
    /\ isDbReady = FALSE
    /\ boot = BootStart
    /\ inflight = << >>
    /\ newStoreName = ""
    /\ filterStatus = "All"
    /\ searchTerm = ""
    /\ sortCriteria = << "name", "asc" >>
    /\ modal = "none"
    /\ localItem = << >>
    /\ nextId = 1
    /\ clock = now
    /\ filesSelected = 0
    /\ exported = << >>
    /\ lastLog = ""

InitReturning == InitOn({ Milk, Bread }, {}, 0)

NextReload ==
    \/ loadAllItemsDB
    \/ loadAllStoresDB
    \/ loadAllReceiptsDB
    \/ loadData
    \/ Idle /\ Remount
    \/ Idle /\ handleLogReceipt
    \/ Idle /\ \E k \in 1..Len(receipts) : \E c \in BOOLEAN :
                  handleDeleteReceipt(receipts[k].id, c)
    \/ \E i \in 1..Len(inflight) : TransactionSettles(i)
    \/ \E i \in 1..Len(inflight) : handleLogReceiptResume(i)
    \/ \E i \in 1..Len(inflight) : handleDeleteReceiptResume(i)

SpecReload == InitReturning /\ [][NextReload]_vars

\* C23 as stated: once the application has loaded, the in-memory receipts
\* list is ordered by non-increasing timestamp in every state.
C23_NewestFirst ==
    isDbReady =>
        \A i, j \in 1..Len(receipts) :
            i < j => receipts[i].timestamp >= receipts[j].timestamp

\* Logging does put the new receipt at the front of the list.
LoggedReceiptInFront ==
    [][ \A i \in 1..Len(inflight) :
            (handleLogReceiptResume(i) /\ inflight[i].stage = "resolved") =>
                receipts' = << inflight[i].arg >> \o receipts ]_vars

\* C24: deleting a store takes exactly the record with that id out of the
\* persisted stores when the write commits and out of the in-memory stores
\* when the handler continues, and no step of the deletion changes an item,
\* in memory or persisted; a failed deletion changes nothing.
C24_DeleteStoreNoCascade ==
    [][ \A i \in 1..Len(inflight) :
            inflight[i].op = "deleteStore" =>
                /\ (Len(inflight') = Len(inflight) /\ inflight'[i].stage # inflight[i].stage) =>
                      /\ UNCHANGED << items, dbItems, stores, receipts, dbReceipts >>
                      /\ dbStores' = IF inflight'[i].stage = "resolved"
                                     THEN dbStores \ WithId(dbStores, inflight[i].arg)
                                     ELSE dbStores
                /\ Len(inflight') < Len(inflight) =>
                      /\ UNCHANGED << items, dbVars, receipts >>
                      /\ stores' = IF inflight[i].stage = "resolved"
                                   THEN SelectSeq(stores, LAMBDA s : s.id # inflight[i].arg)
                                   ELSE stores
                      /\ Len(stores') >= Len(stores) - 1 ]_vars

\* The only store has been deleted, and an item, in memory and persisted,
\* still carries a price entry with its name, which cheapestOption returns.
C24_Witness ==
    /\ Idle
    /\ stores = << >>
    /\ dbStores = {}
    /\ \E it \in Range(items) \cap dbItems :
          /\ \E k \in 1..Len(it.stores) : it.stores[k].storeName = StoreB.name
          /\ getCheapestOption(it).storeName = StoreB.name

(***************************************************************************)
(* Status cycle and quantity buttons over an imported dataset, one command *)
(* at a time.                                                              *)
(***************************************************************************)
NextCycle ==
    \/ loadAllItemsDB
    \/ loadAllStoresDB
    \/ loadAllReceiptsDB
    \/ loadData
    \/ Idle /\ \E doc \in CycleDocs : handleImportData(doc)
    \/ Idle /\ \E k \in 1..Len(items) : \E delta \in { 1, -1 } :
                  WithinQuantity(items[k], delta) /\ handleUpdateQuantity(items[k].id, delta)
    \/ Idle /\ \E k \in 1..Len(items) : handleCycleStatus(items[k].id)
    \/ \E i \in 1..Len(inflight) : TransactionSettles(i)
    \/ \E i \in 1..Len(inflight) : handleUpdateInPlaceResume(i)
    \/ \E i \in 1..Len(inflight) : ImportReaderError(i)
    \/ \E i \in 1..Len(inflight) : ImportOnLoad(i)
    \/ \E i \in 1..Len(inflight) : ImportResume(i)

SpecCycle == Init /\ [][NextCycle]_vars

\* The status after the given one on Depleted -> Running Low -> Home Stocked
\* -> Depleted; Depleted after any other value.
Successor(status) ==
    CASE status = "Depleted" -> "Running Low"
      [] status = "Running Low" -> "Home Stocked"
      [] OTHER -> "Depleted"

\* The id of the item a status cycle or quantity command in flight addresses.
Addressed(o) == o.reqs[1].rec.id

\* C25: a successful status cycle sets the addressed item to the next status
\* of the cycle (Depleted when its status is none of the three), in memory
\* and persisted, and leaves every other field and every other item, in
\* memory and persisted, as they were; three steps along the cycle lead back
\* to the status they began at.
C25_StatusCycle ==
    [][ /\ \A i \in 1..Len(inflight) :
              (inflight[i].op = "cycleStatus" /\ inflight[i].stage = "resolved"
                    /\ handleUpdateInPlaceResume(i)) =>
                  /\ Len(items') = Len(items)
                  /\ \A k \in 1..Len(items) :
                        items'[k] = IF items[k].id = Addressed(inflight[i])
                                    THEN [items[k] EXCEPT !.status = Successor(items[k].status)]
                                    ELSE items[k]
                  /\ \A k \in 1..Len(items) :
                        items[k].id = Addressed(inflight[i]) =>
                            /\ items'[k] \in dbItems
                            /\ \A it \in dbItems : it.id = items[k].id => it = items'[k]
        /\ \A i \in 1..Len(inflight) :
              (inflight[i].op = "cycleStatus" /\ TransactionSettles(i)) =>
                  /\ \A it \in dbItems' : it.id # Addressed(inflight[i]) => it \in dbItems
                  /\ \A it \in dbItems : it.id # Addressed(inflight[i]) => it \in dbItems'
        /\ \A it \in Range(items) :
              it.status \in Range(STATUS_CYCLE) =>
                  NextStatus(NextStatus(NextStatus(it.status))) = it.status ]_vars

\* The item imported with an unknown status has been cycled to Depleted and
\* on to Home Stocked, its other fields and the other item being as imported.
C25_Witness ==
    /\ Idle
    /\ Len(items) = 2
    /\ items[1] = [UnknownSalt EXCEPT !.status = "Home Stocked"]
    /\ items[2] = Bread
    /\ Range(items) = dbItems

(***************************************************************************)
(* File selection on the import input of the booted application, beside    *)
(* the store commands.  The other specifications take the import procedure *)
(* as invoked.                                                             *)
(***************************************************************************)
NextFile ==
    \/ loadAllItemsDB
    \/ loadAllStoresDB
    \/ loadAllReceiptsDB
    \/ loadData
    \/ Idle /\ Remount
    \/ Idle /\ \E doc \in ImportDocs : importInputChange(doc)
    \/ Idle /\ \E s \in StoreNameInputs : setNewStoreName(s)
    \/ Idle /\ handleAddStore
    \/ Idle /\ \E k \in 1..Len(stores) : handleDeleteStore(stores[k].id)
    \/ \E i \in 1..Len(inflight) : TransactionSettles(i)
    \/ \E i \in 1..Len(inflight) : handleAddStoreResume(i)
    \/ \E i \in 1..Len(inflight) : handleDeleteStoreResume(i)

SpecFile == Init /\ [][NextFile]_vars

\* C26 as stated: a file selection on the import input of the booted
\* application starts one run of handleImportData.
C26_SelectionRunsImport ==
    [][ filesSelected' = filesSelected + 1 =>
            /\ Len(inflight') = Len(inflight) + 1
            /\ inflight'[Len(inflight')].op = "import" ]_vars

\* The listener that calls handleImportData is never attached.
ListenerNeverAttached == ~boot.listener

(***************************************************************************)
(* Commands that overlap: a button is pressed while the handler of an      *)
(* earlier press is still awaiting its write.  The readwrite transactions  *)
(* on one object store run in the order they were created, and a handler   *)
(* continues in the microtask after its transaction's complete or error    *)
(* event, so the handlers in flight proceed oldest first.  The -1 button   *)
(* of the first item and the status button of the last one are pressed.    *)
(***************************************************************************)
MaxInflight == 2

Overlapping == Len(inflight) < MaxInflight

Oldest == 1

NextOverlap ==
    \/ loadAllItemsDB
    \/ loadAllStoresDB
    \/ loadAllReceiptsDB
    \/ loadData
    \/ Overlapping /\ items # << >> /\ handleUpdateQuantity(items[1].id, -1)
    \/ Overlapping /\ items # << >> /\ handleCycleStatus(items[Len(items)].id)
    \/ ~Idle /\ TransactionSettles(Oldest)
    \/ ~Idle /\ handleUpdateInPlaceResume(Oldest)

SpecOverlap == InitReturning /\ [][NextOverlap]_vars

\* C27 as stated: once the overlapping updates have all completed, the items
\* list holds exactly the persisted items.
C27_OverlappingUpdatesKept ==
    (isDbReady /\ Idle) => (Range(items) = dbItems /\ NoDuplicates(items))

NextOverlapDelete ==
    \/ NextOverlap
    \/ Overlapping /\ \E k \in 1..Len(items) : handleDeleteItem(items[k].id)
    \/ ~Idle /\ handleDeleteItemResume(Oldest)

SpecOverlapDelete == InitReturning /\ [][NextOverlapDelete]_vars

\* No item with the id is in the list or in the object store.
Absent(id) ==
    /\ isDbReady
    /\ \A k \in 1..Len(items) : items[k].id # id
    /\ \A it \in dbItems : it.id # id

\* C28 as stated: an item id that a completed delete has removed from the
\* list and from the object store is in neither of them in the next state.
C28_DeletedStaysDeleted ==
    [][ \A id \in { Milk.id, Bread.id } : Absent(id) => Absent(id)' ]_vars

(***************************************************************************)
(* Add-store requests that overlap, one store short of the cap.  The       *)
(* object store holds 49 stores; the Enter key in the name input (or a     *)
(* second press of +) invokes handleAddStore again before the first        *)
(* invocation's write has resolved, while the rendered list still has 49   *)
(* stores and the input still holds the name.                              *)
(***************************************************************************)
NearCapStores ==
    { [id |-> 100 + k, name |-> "B"] : k \in 1..(MAX_REUSABLE_STORES - 1) }

InitNearCap == InitOn({}, NearCapStores, 1)

NextOverlapStores ==
    \/ loadAllItemsDB
    \/ loadAllStoresDB
    \/ loadAllReceiptsDB
    \/ loadData
    \/ \E s \in StoreNameInputs : setNewStoreName(s)
    \/ Overlapping /\ handleAddStore
    \/ Idle /\ stores # << >> /\ handleDeleteStore(stores[Len(stores)].id)
    \/ ~Idle /\ TransactionSettles(Oldest)
    \/ ~Idle /\ handleAddStoreResume(Oldest)
    \/ ~Idle /\ handleDeleteStoreResume(Oldest)

SpecOverlapStores == InitNearCap /\ [][NextOverlapStores]_vars

\* C29 as stated: also when add-store requests overlap, the stores object
\* store and the stores list each hold at most 50 records.
C29_CapUnderOverlap ==
    /\ Len(stores) <= MAX_REUSABLE_STORES
    /\ Cardinality(dbStores) <= MAX_REUSABLE_STORES

(***************************************************************************)
(* A status filter chosen in the select after a sort.                      *)
(***************************************************************************)
\* The status a filter option of the select stands for.
StatusOfOption(suffix) ==
    CASE suffix = "all" -> "All"
      [] suffix = "depleted" -> "Depleted"
      [] suffix = "runninglow" -> "Running Low"
      [] suffix = "shoppingcart" -> "Shopping Cart"

\* No item of the list stands before one the comparator of the sort
\* criterion puts in front of it.
OrderedBy(visible, sort) ==
    \A i, j \in 1..Len(visible) :
        i < j => Compare(visible[i], visible[j], sort[1],
                         IF sort[2] = "asc" THEN 1 ELSE -1) <= 0

\* C30: choosing a filter option of the select (All, Depleted, Running Low
\* or Shopping Cart) sets the status filter to that status and changes
\* nothing else, the sort criterion included, and the visible list, under
\* whatever filter, is ordered by the sort criterion that was last chosen.
C30_FilterKeepsSort ==
    /\ [][ /\ \A value \in CombinedOptions :
                  (value[1] = "filter-" /\ handleCombinedChange(value)) =>
                      /\ filterStatus' = StatusOfOption(value[2])
                      /\ UNCHANGED << sortCriteria, searchTerm, items, stores, receipts,
                                      dbVars, inflight, formVars, newStoreName, lastLog >>
           /\ filterStatus' \notin { filterStatus, "All" } =>
                 UNCHANGED << sortCriteria, searchTerm, items >> ]_vars
    /\ [] OrderedBy(filteredAndSortedItems, sortCriteria)

\* A status filter is in force after a sort other than the initial one was
\* chosen, and the visible list is neither in the order of the items list
\* nor in name order.
C30_Witness ==
    /\ filterStatus # "All"
    /\ sortCriteria # << "name", "asc" >>
    /\ Len(filteredAndSortedItems) >= 2
    /\ filteredAndSortedItems
          # FilteredAndSorted(items, searchTerm, filterStatus, << "name", "asc" >>)
    /\ \E i, j \in 1..Len(filteredAndSortedItems) :
          /\ i < j
          /\ PositionInItems(filteredAndSortedItems[i])
                > PositionInItems(filteredAndSortedItems[j])

====
